---- MODULE Spec2Model ----
(***************************************************************************)
(* A model of lexer-crablang: the token source (src/lexer.rs) at the       *)
(* granularity of lexemes, the recursive-descent parser (src/parser.rs)    *)
(* as an explicit call-stack machine, and the scope chain of the code      *)
(* generator (src/codegen/codegen.rs).                                     *)
(*                                                                         *)
(* The source text is read lazily by the lexer, so the model reveals it    *)
(* lexeme by lexeme: every Lexer::consume that has to scan draws the next  *)
(* lexeme of the text.  lexer.source is the prefix read so far.            *)
(***************************************************************************)
EXTENDS Integers, Sequences, FiniteSets, TLC

\* Longest source text, in lexemes.
MaxSrc == 5
\* Most newline characters in a row that skip_whitespace drops inside parentheses.
MaxSkippedNewlines == 1

\* Most statements in one compiled program (an `if` and each `else if` count as one).
MaxStmts == 5
\* Deepest nesting of scopes, the top-level scope included.
MaxDepth == 2

\* Parser and its lexer (src/parser.rs, src/lexer.rs)
VARIABLES lexer, rexp_nesting_level, program, stack, ret
\* Code generator (src/codegen/codegen.rs): its call stack with the Env each
\* gen_block owns, the result last returned, the label decorator, the lines
\* the last step appended to Asm.text, the statement gen_stmt was last given;
\* and, for stating properties, the number of statements so far and the
\* frame offset of every binding register_symbol has introduced, in order.
VARIABLES gstack, gret, label_decorator, emitted, cur_stmt, nstmts, allocs

\* The emitted code being run: what was compiled, the text Asm.text holds
\* for it, and the processor executing that text; and, for stating
\* properties, the lines executed so far with rax at each, and the text of
\* every compilation of run_input so far.
VARIABLES run_input, asm_text, cpu, trace, texts
\* main (src/main.rs): where it stands, the status the process exited with
\* (none yet: empty) and the output file (not created: empty).
VARIABLES main_pc, exit_status, outfile
\* The Program whose Display text is being parsed again (None: no such).
VARIABLES original

parser_vars == <<lexer, rexp_nesting_level, program, stack, ret>>
gen_vars == <<gstack, gret, label_decorator, emitted, cur_stmt, nstmts, allocs>>
run_vars == <<run_input, asm_text, cpu, trace, texts>>
main_vars == <<main_pc, exit_status, outfile>>
not_parser_vars == <<gen_vars, run_vars, main_vars, original>>
not_gen_vars == <<parser_vars, run_vars, main_vars, original>>

----------------------------------------------------------------------------
(* Results and errors (src/main.rs CompileError)                           *)

None == <<"None">>
Ok(v) == <<"Ok", v>>
Err(e) == <<"Err", e>>
IsOk(r) == r[1] = "Ok"
IsErr(r) == r[1] = "Err"
NotFound == <<"NotFound">>
IsNotFound(r) == IsErr(r) /\ r[2][1] = "NotFound"

\* handle_not_found without the conversion: NotFound is passed on as it is.
handle_not_found_unconverted(res, err) == res

\* HandleNotFound::handle_not_found
handle_not_found(res, err) ==
    IF IsNotFound(res) THEN Err(err) ELSE res

----------------------------------------------------------------------------
(* Lexer (src/lexer.rs)                                                    *)

EOF == "<eof>"
NL == "\n"

\* The table with the one-character operators tried first.
TOKENTYPE_MAPPINGS_short_first ==
    << <<"=", "Assign">>, <<"<", "Less">>, <<">", "Greater">>,
       <<"==", "Equal">>, <<"!=", "NotEqual">>, <<"<=", "LessEqual">>,
       <<">=", "GreaterEqual">>, <<"+", "Plus">>, <<"-", "Minus">>,
       <<"*", "Asterisk">>, <<"/", "ForwardSlash">>, <<"{", "SCurly">>,
       <<"}", "ECurly">>, <<"(", "SBrace">>, <<")", "EBrace">>,
       <<NL, "NewLine">> >>

TOKENTYPE_MAPPINGS ==
    << <<"==", "Equal">>, <<"!=", "NotEqual">>, <<"<=", "LessEqual">>,
       <<">=", "GreaterEqual">>, <<"+", "Plus">>, <<"-", "Minus">>,
       <<"*", "Asterisk">>, <<"/", "ForwardSlash">>, <<"=", "Assign">>,
       <<"<", "Less">>, <<">", "Greater">>, <<"{", "SCurly">>,
       <<"}", "ECurly">>, <<"(", "SBrace">>, <<")", "EBrace">>,
       <<NL, "NewLine">> >>

\* The words and numbers a source text is made of, and a character that
\* starts no token.
IdentLexemes == {"x"}
IntLexemes == {"1"}
IllegalLexemes == {"@"}
\* The words Display for Stmt and Display for Program write.
DisplayWords == {"Program", "Declare", "Assign", "Initialize", "RExp", "Exit"}
Keywords == {"else", "exit", "let", "if"}
SymbolLexemes == {TOKENTYPE_MAPPINGS[i][1] : i \in DOMAIN TOKENTYPE_MAPPINGS}
Lexemes == SymbolLexemes \cup Keywords \cup IdentLexemes \cup IntLexemes
             \cup IllegalLexemes

\* Lexer::ident_or_keyword, on a whole word.
ident_or_keyword(lexeme) ==
    CASE lexeme = "else" -> <<"Else">>
      [] lexeme = "exit" -> <<"Exit">>
      [] lexeme = "let" -> <<"Let">>
      [] lexeme = "if" -> <<"If">>
      [] OTHER -> <<"Ident", lexeme>>

\* The token type Lexer::consume gives a lexeme: the first matching entry of
\* TOKENTYPE_MAPPINGS, else a word, else a number, else Illegal.
TokenTypeOf(lexeme) ==
    IF lexeme = EOF THEN <<"EndOfFile">>
    ELSE IF lexeme \in SymbolLexemes
    THEN LET i == CHOOSE j \in DOMAIN TOKENTYPE_MAPPINGS :
                     /\ TOKENTYPE_MAPPINGS[j][1] = lexeme
                     /\ \A k \in 1..(j - 1) : TOKENTYPE_MAPPINGS[k][1] # lexeme
         IN << TOKENTYPE_MAPPINGS[i][2] >>
    ELSE IF lexeme \in (Keywords \cup IdentLexemes) \cup DisplayWords
    THEN ident_or_keyword(lexeme)
    ELSE IF lexeme \in IntLexemes THEN <<"IntLiteral", lexeme>>
    ELSE <<"Illegal", lexeme>>

Token(tt, s, e) == [tokentype |-> tt, start |-> s, end |-> e]

\* Lexer::new / Lexer::from_file: one StartOfFile token, cursor on it.  The
\* text is any text (`given` None: `source` grows as consume reads it) ...
Lexer_new ==
    [ source |-> <<>>, src_end |-> FALSE, ch_cursor |-> 0,
      tokens |-> << Token(<<"StartOfFile">>, 0, 0) >>, token_cursor |-> 0,
      emit_newline |-> TRUE, given |-> <<"None">> ]
\* ... or a given text,
Lexer_from(text) == [Lexer_new EXCEPT !.given = <<"Some", text>>]
\* or any text of at most `longest` lexemes out of `lexemes`.
Lexer_among(lexemes, longest) ==
    [Lexer_new EXCEPT !.given = <<"Among", lexemes, longest>>]

\* The newlines a text has in a row from position i on.
RECURSIVE NewlinesAt(_, _)
NewlinesAt(text, i) ==
    IF i <= Len(text) /\ text[i] = NL THEN 1 + NewlinesAt(text, i + 1) ELSE 0

\* Lexer::peek (token_cursor counts from 0)
peek(lx) == lx.tokens[lx.token_cursor + 1]

\* A skip_whitespace that never drops a newline.
Picks_keeping_newlines(lx) ==
    IF lx.token_cursor < Len(lx.tokens) - 1 \/ lx.src_end
    THEN { [skip |-> 0, next |-> EOF] }
    ELSE IF lx.given[1] = "Some"
    THEN { [skip |-> 0,
            next |-> IF lx.ch_cursor < Len(lx.given[2])
                     THEN lx.given[2][lx.ch_cursor + 1] ELSE EOF] }
    ELSE { p \in [ skip : {0}, next : Lexemes \cup {EOF} ] :
             lx.ch_cursor + (IF p.next = EOF THEN 0 ELSE 1) <= MaxSrc }

\* What the unread part of the text can start with when consume scans:
\* `skip` newlines that skip_whitespace drops, then the lexeme `next`.
Picks(lx) ==
    IF lx.token_cursor < Len(lx.tokens) - 1 \/ lx.src_end
    THEN { [skip |-> 0, next |-> EOF] }
    ELSE IF lx.given[1] = "Some"
    THEN LET text == lx.given[2]
             skip == IF lx.emit_newline THEN 0 ELSE NewlinesAt(text, lx.ch_cursor + 1)
         IN { [skip |-> skip,
               next |-> IF lx.ch_cursor + skip < Len(text)
                        THEN text[lx.ch_cursor + skip + 1] ELSE EOF] }
    ELSE { p \in [ skip : 0..(IF lx.emit_newline THEN 0 ELSE MaxSkippedNewlines),
                   next : (IF lx.given[1] = "Among" THEN lx.given[2] ELSE Lexemes)
                            \cup {EOF} ] :
             /\ (~lx.emit_newline) => p.next # NL
             /\ lx.ch_cursor + p.skip + (IF p.next = EOF THEN 0 ELSE 1)
                  <= (IF lx.given[1] = "Among" THEN lx.given[3] ELSE MaxSrc) }

\* Lexer::set_next_token
set_next_token(lx, tt, s, e) ==
    [lx EXCEPT !.tokens = Append(lx.tokens, Token(tt, s, e)),
               !.token_cursor = lx.token_cursor + 1]

\* Lexer::consume, with skip_whitespace, on the text continuing with p.
Lexer_consume(lx, p) ==
    IF lx.token_cursor < Len(lx.tokens) - 1
    THEN [lexer |-> [lx EXCEPT !.token_cursor = lx.token_cursor + 1], res |-> Ok(<<>>)]
    ELSE LET skipped == [i \in 1..p.skip |-> NL]
             s == lx.ch_cursor + p.skip
             tt == TokenTypeOf(p.next)
         IN IF p.next = EOF
            THEN [lexer |-> set_next_token(
                               [lx EXCEPT !.source = lx.source \o skipped,
                                          !.ch_cursor = s, !.src_end = TRUE],
                               tt, s, s),
                  res |-> Ok(<<>>)]
            ELSE LET read == [lx EXCEPT !.source = (lx.source \o skipped) \o <<p.next>>,
                                        !.ch_cursor = s + 1]
                 IN IF tt[1] = "Illegal"
                    THEN [lexer |-> set_next_token(read, tt, s, s),
                          res |-> Err(<<"IllegalToken", Token(tt, s, s)>>)]
                    ELSE [lexer |-> set_next_token(read, tt, s, s + 1),
                          res |-> Ok(<<>>)]

Consumes(lx) == { Lexer_consume(lx, p) : p \in Picks(lx) }

\* A rewind that forgets the token it steps back from.
Lexer_rewind_dropping(lx) ==
    IF lx.token_cursor <= 0 THEN lx
    ELSE [lx EXCEPT !.token_cursor = lx.token_cursor - 1,
                    !.tokens = SubSeq(lx.tokens, 1, Len(lx.tokens) - 1)]

\* Lexer::rewind
Lexer_rewind(lx) ==
    IF lx.token_cursor <= 0 THEN lx
    ELSE [lx EXCEPT !.token_cursor = lx.token_cursor - 1]

----------------------------------------------------------------------------
(* Lexer, character by character (src/lexer.rs)                            *)
(* A text is a sequence of characters; a lexeme is the sequence of its     *)
(* characters.                                                             *)

\* char::is_ascii_alphabetic, is_ascii_digit, is_ascii_alphanumeric and
\* is_whitespace, on the characters texts are made of.
AsciiLetters ==
    {"a", "b", "c", "d", "e", "f", "g", "h", "i", "j", "k", "l", "m", "n", "o",
     "p", "q", "r", "s", "t", "u", "v", "w", "x", "y", "z",
     "A", "B", "C", "D", "E", "F", "G", "H", "I", "J", "K", "L", "M", "N", "O",
     "P", "Q", "R", "S", "T", "U", "V", "W", "X", "Y", "Z"}
AsciiDigits == {"0", "1", "2", "3", "4", "5", "6", "7", "8", "9"}
AsciiAlphanumeric == AsciiLetters \cup AsciiDigits
Whitespace == {" ", "\t", "\r", NL}

\* The characters of the strings of TOKENTYPE_MAPPINGS (str::chars).
Chars(string) ==
    CASE string = "==" -> <<"=", "=">>
      [] string = "!=" -> <<"!", "=">>
      [] string = "<=" -> <<"<", "=">>
      [] string = ">=" -> <<">", "=">>
      [] OTHER -> <<string>>

\* Location
Loc(row, col) == [row |-> row, col |-> col]

\* Lexer::new(source)
Lex_new(source) ==
    [ source |-> source,
      tokens |-> << Token(<<"StartOfFile">>, Loc(1, 1), Loc(1, 1)) >>,
      next_token_start |-> Loc(1, 1),
      token_cursor |-> 0,
      peek_ch |-> IF Len(source) > 0 THEN <<"Some", source[1]>> ELSE <<"None">>,
      ch_cursor |-> 0,
      loc |-> Loc(1, 1),
      emit_newline |-> TRUE ]

\* Lexer::is_eof
Lex_is_eof(lx) == lx.ch_cursor >= Len(lx.source)

\* Lexer::consume_ch
Lex_consume_ch(lx) ==
    IF Lex_is_eof(lx) THEN lx
    ELSE LET cursor == lx.ch_cursor + 1
             eof == cursor >= Len(lx.source)
         IN [lx EXCEPT
               !.ch_cursor = cursor,
               !.loc = IF lx.peek_ch = <<"Some", NL>> THEN Loc(lx.loc.row + 1, 1)
                       ELSE IF ~eof /\ lx.source[cursor + 1] # NL
                       THEN Loc(lx.loc.row, lx.loc.col + 1)
                       ELSE lx.loc,
               !.peek_ch = IF eof THEN <<"None">> ELSE <<"Some", lx.source[cursor + 1]>>]

\* consume_ch called n times.
RECURSIVE Lex_consume_chs(_, _)
Lex_consume_chs(lx, n) ==
    IF n = 0 THEN lx ELSE Lex_consume_chs(Lex_consume_ch(lx), n - 1)

\* Lexer::skip_whitespace
RECURSIVE Lex_skip_whitespace(_)
Lex_skip_whitespace(lx) ==
    IF /\ lx.peek_ch[1] = "Some"
       /\ \/ lx.peek_ch[2] # NL /\ lx.peek_ch[2] \in Whitespace
          \/ lx.peek_ch[2] = NL /\ ~lx.emit_newline
    THEN Lex_skip_whitespace(Lex_consume_ch(lx))
    ELSE lx

\* Lexer::prepare_next_token
Lex_prepare_next_token(lx) == [lx EXCEPT !.next_token_start = lx.loc]

\* Lexer::set_next_token
Lex_set_next_token(lx, tokentype) ==
    [lx EXCEPT !.tokens = Append(lx.tokens, Token(tokentype, lx.next_token_start, lx.loc)),
               !.token_cursor = lx.token_cursor + 1]

\* Lexer::try_consume_str: whether the text goes on with the string, and
\* the lexer afterwards.
Lex_try_consume_str(lx, string) ==
    LET matches == /\ lx.ch_cursor + Len(string) <= Len(lx.source)
                   /\ \A k \in 1..Len(string) : lx.source[lx.ch_cursor + k] = string[k]
    IN [found |-> matches,
        lexer |-> IF matches THEN Lex_consume_chs(lx, Len(string)) ELSE lx]

\* The loops of int_literal and ident_or_keyword: the characters of a class
\* the text goes on with, pushed to a lexeme, and the lexer after them.
RECURSIVE Lex_while(_, _, _)
Lex_while(lx, class, lexeme) ==
    IF lx.peek_ch[1] = "Some" /\ lx.peek_ch[2] \in class
    THEN Lex_while(Lex_consume_ch(lx), class, Append(lexeme, lx.peek_ch[2]))
    ELSE [lexeme |-> lexeme, lexer |-> lx]

\* An int_literal that stops at the end of the digits.
Lex_int_literal_split(lx) ==
    LET digits == Lex_while(lx, AsciiDigits, <<>>)
    IN [lexer |-> Lex_set_next_token(digits.lexer, <<"IntLiteral", digits.lexeme>>),
        res |-> Ok(<<>>)]

\* Lexer::int_literal
Lex_int_literal(lx) ==
    LET digits == Lex_while(lx, AsciiDigits, <<>>)
        illegal == Lex_while(digits.lexer, AsciiAlphanumeric, <<>>)
    IN IF Len(illegal.lexeme) > 0
       THEN LET l == Lex_set_next_token(illegal.lexer,
                         <<"Illegal", digits.lexeme \o illegal.lexeme>>)
            IN [lexer |-> l, res |-> Err(<<"IllegalToken", peek(l)>>)]
       ELSE [lexer |-> Lex_set_next_token(digits.lexer, <<"IntLiteral", digits.lexeme>>),
             res |-> Ok(<<>>)]

\* Lexer::ident_or_keyword
Lex_ident_or_keyword(lx) ==
    LET word == Lex_while(lx, AsciiAlphanumeric \cup {"_"}, <<>>)
        lexeme == word.lexeme
    IN CASE lexeme = <<"e", "l", "s", "e">> -> Lex_set_next_token(word.lexer, <<"Else">>)
         [] lexeme = <<"e", "x", "i", "t">> -> Lex_set_next_token(word.lexer, <<"Exit">>)
         [] lexeme = <<"l", "e", "t">> -> Lex_set_next_token(word.lexer, <<"Let">>)
         [] lexeme = <<"i", "f">> -> Lex_set_next_token(word.lexer, <<"If">>)
         [] OTHER -> Lex_set_next_token(word.lexer, <<"Ident", lexeme>>)

\* Lexer::consume: the lexer afterwards and the result.
Lex_consume(lx) ==
    IF lx.token_cursor < Len(lx.tokens) - 1
    THEN [lexer |-> [lx EXCEPT !.token_cursor = lx.token_cursor + 1], res |-> Ok(<<>>)]
    ELSE LET at == Lex_prepare_next_token(Lex_skip_whitespace(lx))
             hits == { i \in DOMAIN TOKENTYPE_MAPPINGS :
                         Lex_try_consume_str(at, Chars(TOKENTYPE_MAPPINGS[i][1])).found }
         IN IF at.peek_ch[1] = "None"
            THEN [lexer |-> Lex_set_next_token(at, <<"EndOfFile">>), res |-> Ok(<<>>)]
            ELSE IF hits # {}
            THEN LET i == CHOOSE j \in hits : \A k \in hits : j <= k
                     after == Lex_try_consume_str(at, Chars(TOKENTYPE_MAPPINGS[i][1])).lexer
                 IN [lexer |-> Lex_set_next_token(after, << TOKENTYPE_MAPPINGS[i][2] >>),
                     res |-> Ok(<<>>)]
            ELSE LET ch == at.peek_ch[2]
                 IN IF ch \in AsciiLetters \cup {"_"}
                    THEN [lexer |-> Lex_ident_or_keyword(at), res |-> Ok(<<>>)]
                    ELSE IF ch \in AsciiDigits THEN Lex_int_literal(at)
                    ELSE LET l == Lex_consume_ch(Lex_set_next_token(at, <<"Illegal", <<ch>> >>))
                         IN [lexer |-> l, res |-> Err(<<"IllegalToken", peek(l)>>)]

\* The texts the lexer is run on: at most MaxPieces of these pieces, one
\* after the other with nothing in between.
MaxPieces == 3
MaxEofTokens == 2
SourcePieces ==
    { <<"l", "e", "t">>, <<"i", "f">>, <<"e", "l", "s", "e">>, <<"e", "x", "i", "t">>,
      <<"x">>, <<"_">>, <<"1">>, <<"2">>,
      <<"=">>, <<"!">>, <<"<">>, <<">">>, <<"+">>, <<"{">>,
      <<" ">>, <<NL>>, <<"@">>, <<"&">> }
RECURSIVE Flatten(_)
Flatten(pieces) ==
    IF pieces = <<>> THEN <<>> ELSE Head(pieces) \o Flatten(Tail(pieces))
Sources == { Flatten(ps) : ps \in UNION { [1..k -> SourcePieces] : k \in 0..MaxPieces } }

\* Lexer::new on any of the texts; emit_newline is a public field its owner
\* sets either way.  No parser is running.
LexInit ==
    /\ lexer \in { [Lex_new(source) EXCEPT !.emit_newline = b] :
                    source \in Sources, b \in BOOLEAN }
    /\ rexp_nesting_level = 0
    /\ program = <<>>
    /\ stack = <<>>
    /\ ret = None

\* The EndOfFile tokens read so far.
EofTokens(lx) ==
    Cardinality({ i \in DOMAIN lx.tokens : lx.tokens[i].tokentype = <<"EndOfFile">> })

\* A call of Lexer::consume, its result kept in ret.
Lex_consume_call ==
    /\ lexer.token_cursor < Len(lexer.tokens) - 1 \/ EofTokens(lexer) < MaxEofTokens
    /\ lexer' = Lex_consume(lexer).lexer
    /\ ret' = Lex_consume(lexer).res
    /\ UNCHANGED <<rexp_nesting_level, program, stack>>
    /\ UNCHANGED not_parser_vars

\* A call of Lexer::rewind.
Lex_rewind_call ==
    /\ lexer' = Lexer_rewind(lexer)
    /\ UNCHANGED <<rexp_nesting_level, program, stack, ret>>
    /\ UNCHANGED not_parser_vars

----------------------------------------------------------------------------
(* AST (src/parser.rs)                                                     *)

Identifier(token) == <<"Ident", token.tokentype[2], token.start>>
IntLiteral(token) == <<"IntLit", token.tokentype[2], token.start>>

\* TryFrom<Token> for Term
Term_try_from(token) ==
    IF token.tokentype[1] = "Ident" THEN <<"LExp", Identifier(token)>>
    ELSE IntLiteral(token)

\* From<Term> for RExp
RExp_from(term) == <<"Term", term>>

\* RExp::combine
RExp_combine(operator, lhs, rhs) ==
    CASE operator[1] = "Plus" -> <<"Add", lhs, rhs>>
      [] operator[1] = "Minus" -> <<"Sub", lhs, rhs>>
      [] operator[1] = "Asterisk" -> <<"Mul", lhs, rhs>>
      [] operator[1] = "ForwardSlash" -> <<"Div", lhs, rhs>>
      [] operator[1] = "Equal" -> <<"Equal", lhs, rhs>>
      [] operator[1] = "NotEqual" -> <<"NotEqual", lhs, rhs>>
      [] operator[1] = "Less" -> <<"Less", lhs, rhs>>
      [] operator[1] = "LessEqual" -> <<"LessEqual", lhs, rhs>>
      [] operator[1] = "Greater" -> <<"Greater", lhs, rhs>>
      [] operator[1] = "GreaterEqual" -> <<"GreaterEqual", lhs, rhs>>

\* A conversion that would take any single term for an assignment target.
LExp_try_from_any_term(value) ==
    IF value[1] = "Term" THEN Ok(value[2][2]) ELSE Err(value)

\* TryFrom<RExp> for LExp
LExp_try_from(value) ==
    IF value[1] = "Term" /\ value[2][1] = "LExp" THEN Ok(value[2][2]) ELSE Err(value)

is_op(tokentype) ==
    tokentype[1] \in {"Minus", "Plus", "Asterisk", "ForwardSlash", "Equal",
                      "NotEqual", "Less", "LessEqual", "Greater", "GreaterEqual"}

\* A table with additive operators binding tighter than multiplicative ones.
op_prec_and_assoc_swapped(tokentype) ==
    CASE tokentype[1] \in {"Equal", "NotEqual", "Less", "LessEqual", "Greater",
                           "GreaterEqual"} -> <<1, "Right">>
      [] tokentype[1] \in {"Minus", "Plus"} -> <<3, "Left">>
      [] tokentype[1] \in {"Asterisk", "ForwardSlash"} -> <<2, "Left">>

\* A table with every associativity the other way round.
op_prec_and_assoc_flipped(tokentype) ==
    CASE tokentype[1] \in {"Equal", "NotEqual", "Less", "LessEqual", "Greater",
                           "GreaterEqual"} -> <<1, "Left">>
      [] tokentype[1] \in {"Minus", "Plus"} -> <<2, "Right">>
      [] tokentype[1] \in {"Asterisk", "ForwardSlash"} -> <<3, "Right">>

\* op_prec_and_assoc
op_prec_and_assoc(tokentype) ==
    CASE tokentype[1] \in {"Equal", "NotEqual", "Less", "LessEqual", "Greater",
                           "GreaterEqual"} -> <<1, "Right">>
      [] tokentype[1] \in {"Minus", "Plus"} -> <<2, "Left">>
      [] tokentype[1] \in {"Asterisk", "ForwardSlash"} -> <<3, "Left">>

----------------------------------------------------------------------------
(* Parser (src/parser.rs): the call stack, newest frame first              *)

Frame(fn, pc) == [fn |-> fn, pc |-> pc]
Top == Head(stack)
Running(fn, pc) == stack # <<>> /\ Top.fn = fn /\ Top.pc = pc

Return(v) == stack' = Tail(stack) /\ ret' = v
Goto(f) == stack' = <<f>> \o Tail(stack) /\ ret' = None
Call(f, callee) == stack' = <<callee, f>> \o Tail(stack) /\ ret' = None

\* Parser::rexp: rexp_min_prec(0)
rexp_frame(min_prec) ==
    [fn |-> "rexp_min_prec", pc |-> "start", min_prec |-> min_prec,
     rexp |-> None, op |-> None, op_location |-> 0]
Parser_rexp == rexp_frame(0)

\* Parser::new / Parser::from_file, about to run parse_program.
ParserInit ==
    /\ lexer = Lexer_new
    /\ rexp_nesting_level = 0
    /\ program = <<>>
    /\ stack = << Frame("parse_program", "skip_newlines") >>
    /\ ret = None

\* What parse_program returned, once it has.
Finished == stack = <<>>

\* Parser::parse_program
Parser_parse_program ==
    /\ stack # <<>> /\ Top.fn = "parse_program"
    /\ UNCHANGED not_parser_vars
    /\ UNCHANGED rexp_nesting_level
    /\ \/ /\ Top.pc = "skip_newlines"
          /\ Call([Top EXCEPT !.pc = "stmt"],
                 [fn |-> "skip_newlines", pc |-> "loop", newlines_skipped |-> FALSE])
          /\ UNCHANGED <<lexer, program>>
       \/ /\ Top.pc = "stmt"
          /\ IF IsErr(ret) THEN Return(ret)
             ELSE Call([Top EXCEPT !.pc = "after_stmt"], Frame("stmt", "start"))
          /\ UNCHANGED <<lexer, program>>
       \/ /\ Top.pc = "after_stmt"
          /\ IF IsNotFound(ret)
             THEN Return(Ok(<<>>)) /\ UNCHANGED <<lexer, program>>
             ELSE IF IsErr(ret)
             THEN Return(ret) /\ UNCHANGED <<lexer, program>>
             ELSE /\ program' = Append(program, ret[2])
                  /\ LET token == peek(lexer)
                     IN IF token.tokentype[1] = "NewLine"
                        THEN \E c \in Consumes(lexer) :
                               /\ lexer' = c.lexer
                               /\ IF IsErr(c.res) THEN Return(c.res)
                                  ELSE Goto([Top EXCEPT !.pc = "skip_newlines"])
                        ELSE IF token.tokentype[1] = "EndOfFile"
                        THEN \E c \in Consumes(lexer) :
                               /\ lexer' = c.lexer
                               /\ IF IsErr(c.res) THEN Return(c.res)
                                  ELSE Return(Ok(<<>>))
                        ELSE /\ Return(Err(<<"ExpectedNewline", token.start>>))
                             /\ UNCHANGED lexer

\* A skip_newlines that looks at the newline and leaves it where it is.
Parser_skip_newlines_peeking ==
    /\ stack # <<>> /\ Top.fn = "skip_newlines"
    /\ UNCHANGED not_parser_vars
    /\ UNCHANGED <<rexp_nesting_level, program>>
    /\ IF peek(lexer).tokentype[1] \in {"NewLine", "StartOfFile"}
       THEN Goto([Top EXCEPT !.newlines_skipped = TRUE]) /\ UNCHANGED lexer
       ELSE Return(Ok(Top.newlines_skipped)) /\ UNCHANGED lexer

\* Parser::skip_newlines, one iteration of its loop.
Parser_skip_newlines ==
    /\ stack # <<>> /\ Top.fn = "skip_newlines"
    /\ UNCHANGED not_parser_vars
    /\ UNCHANGED <<rexp_nesting_level, program>>
    /\ IF peek(lexer).tokentype[1] \in {"NewLine", "StartOfFile"}
       THEN \E c \in Consumes(lexer) :
              /\ lexer' = c.lexer
              /\ IF IsErr(c.res) THEN Return(c.res)
                 ELSE Goto([Top EXCEPT !.newlines_skipped = TRUE])
       ELSE Return(Ok(Top.newlines_skipped)) /\ UNCHANGED lexer

\* Parser::stmt
Parser_stmt ==
    /\ stack # <<>> /\ Top.fn = "stmt"
    /\ UNCHANGED not_parser_vars
    /\ UNCHANGED <<lexer, rexp_nesting_level, program>>
    /\ \/ /\ Top.pc = "start"
          /\ LET tt == peek(lexer).tokentype[1]
                 f == [Top EXCEPT !.pc = "ret"]
             IN CASE tt = "Let" -> Call(f, Frame("decl_or_init", "let"))
                  [] tt \in {"Ident", "IntLiteral", "SBrace", "Minus"} ->
                        Call(f, [fn |-> "assign_stmt_or_rexp", pc |-> "start",
                                 exp |-> None, lexp |-> None, assign_loc |-> 0])
                  [] tt = "Exit" -> Call(f, [fn |-> "exit", pc |-> "start", exit_kw_loc |-> 0])
                  [] tt = "SCurly" -> Call(f, [fn |-> "block", pc |-> "start", stmts |-> <<>>])
                  [] tt = "If" ->
                        Call(f, [fn |-> "if_", pc |-> "start", rexp |-> None, if_block |-> <<>>])
                  [] OTHER -> Return(Err(NotFound))
       \/ /\ Top.pc = "ret"
          /\ Return(ret)

\* An if_ that takes any statement after `else`.
Parser_if_else_any_stmt ==
    /\ stack # <<>> /\ Top.fn = "if_"
    /\ UNCHANGED not_parser_vars
    /\ UNCHANGED <<rexp_nesting_level, program>>
    /\ \/ /\ Top.pc = "start"
          /\ IF peek(lexer).tokentype[1] = "If"
             THEN \E c \in Consumes(lexer) :
                    /\ lexer' = c.lexer
                    /\ IF IsErr(c.res) THEN Return(c.res)
                       ELSE Call([Top EXCEPT !.pc = "cond"], Parser_rexp)
             ELSE Return(Err(NotFound)) /\ UNCHANGED lexer
       \/ /\ Top.pc = "cond"
          /\ LET r == handle_not_found(ret, <<"ExpectedExpression", peek(lexer).start>>)
             IN IF IsErr(r) THEN Return(r)
                ELSE Call([Top EXCEPT !.pc = "then", !.rexp = r[2]],
                          [fn |-> "block", pc |-> "start", stmts |-> <<>>])
          /\ UNCHANGED lexer
       \/ /\ Top.pc = "then"
          /\ LET r == handle_not_found(ret, <<"ExpectedBlock", peek(lexer).start>>)
             IN IF IsErr(r) THEN Return(r) /\ UNCHANGED lexer
                ELSE IF peek(lexer).tokentype[1] = "Else"
                THEN \E c \in Consumes(lexer) :
                       /\ lexer' = c.lexer
                       /\ IF IsErr(c.res) THEN Return(c.res)
                          ELSE Call([Top EXCEPT !.pc = "else_if", !.if_block = r[2][2]],
                                    [fn |-> "if_", pc |-> "start", rexp |-> None,
                                     if_block |-> <<>>])
                ELSE /\ Return(Ok(<<"If", Top.rexp, r[2][2], <<>> >>))
                     /\ UNCHANGED lexer
       \/ /\ Top.pc = "else_if"
          /\ IF IsOk(ret) THEN Return(Ok(<<"If", Top.rexp, Top.if_block, <<ret[2]>> >>))
             ELSE IF IsNotFound(ret)
             THEN Call([Top EXCEPT !.pc = "else"], Frame("stmt", "start"))
             ELSE Return(ret)
          /\ UNCHANGED lexer
       \/ /\ Top.pc = "else"
          /\ IF IsOk(ret) THEN Return(Ok(<<"If", Top.rexp, Top.if_block, <<ret[2]>> >>))
             ELSE IF IsNotFound(ret)
             THEN Return(Err(<<"ExpectedBlock", peek(lexer).start>>))
             ELSE Return(ret)
          /\ UNCHANGED lexer

\* Parser::if_
Parser_if_ ==
    /\ stack # <<>> /\ Top.fn = "if_"
    /\ UNCHANGED not_parser_vars
    /\ UNCHANGED <<rexp_nesting_level, program>>
    /\ \/ /\ Top.pc = "start"
          /\ IF peek(lexer).tokentype[1] = "If"
             THEN \E c \in Consumes(lexer) :
                    /\ lexer' = c.lexer
                    /\ IF IsErr(c.res) THEN Return(c.res)
                       ELSE Call([Top EXCEPT !.pc = "cond"], Parser_rexp)
             ELSE Return(Err(NotFound)) /\ UNCHANGED lexer
       \/ /\ Top.pc = "cond"
          /\ LET r == handle_not_found(ret, <<"ExpectedExpression", peek(lexer).start>>)
             IN IF IsErr(r) THEN Return(r)
                ELSE Call([Top EXCEPT !.pc = "then", !.rexp = r[2]],
                          [fn |-> "block", pc |-> "start", stmts |-> <<>>])
          /\ UNCHANGED lexer
       \/ /\ Top.pc = "then"
          /\ LET r == handle_not_found(ret, <<"ExpectedBlock", peek(lexer).start>>)
             IN IF IsErr(r) THEN Return(r) /\ UNCHANGED lexer
                ELSE IF peek(lexer).tokentype[1] = "Else"
                THEN \E c \in Consumes(lexer) :
                       /\ lexer' = c.lexer
                       /\ IF IsErr(c.res) THEN Return(c.res)
                          ELSE Call([Top EXCEPT !.pc = "else_if", !.if_block = r[2][2]],
                                    [fn |-> "if_", pc |-> "start", rexp |-> None,
                                     if_block |-> <<>>])
                ELSE /\ Return(Ok(<<"If", Top.rexp, r[2][2], <<>> >>))
                     /\ UNCHANGED lexer
       \/ /\ Top.pc = "else_if"
          /\ IF IsOk(ret) THEN Return(Ok(<<"If", Top.rexp, Top.if_block, <<ret[2]>> >>))
             ELSE IF IsNotFound(ret)
             THEN Call([Top EXCEPT !.pc = "else"],
                       [fn |-> "block", pc |-> "start", stmts |-> <<>>])
             ELSE Return(ret)
          /\ UNCHANGED lexer
       \/ /\ Top.pc = "else"
          /\ IF IsOk(ret) THEN Return(Ok(<<"If", Top.rexp, Top.if_block, <<ret[2]>> >>))
             ELSE IF IsNotFound(ret)
             THEN Return(Err(<<"ExpectedBlock", peek(lexer).start>>))
             ELSE Return(ret)
          /\ UNCHANGED lexer

\* An end of block that does not ask for the closing brace.
BlockEnd_unchecked(lx, stmts) ==
    IF peek(lx).tokentype[1] = "ECurly"
    THEN \E c \in Consumes(lx) :
           /\ lexer' = c.lexer
           /\ IF IsErr(c.res) THEN Return(c.res)
              ELSE Return(Ok(<<"Block", stmts>>))
    ELSE Return(Ok(<<"Block", stmts>>)) /\ lexer' = lx

\* The end of Parser::block: the closing brace.
BlockEnd(lx, stmts) ==
    IF peek(lx).tokentype[1] = "ECurly"
    THEN \E c \in Consumes(lx) :
           /\ lexer' = c.lexer
           /\ IF IsErr(c.res) THEN Return(c.res)
              ELSE Return(Ok(<<"Block", stmts>>))
    ELSE Return(Err(<<"ExpectedECurly", peek(lx).start>>)) /\ lexer' = lx

\* Parser::block
Parser_block ==
    /\ stack # <<>> /\ Top.fn = "block"
    /\ UNCHANGED not_parser_vars
    /\ UNCHANGED <<rexp_nesting_level, program>>
    /\ \/ /\ Top.pc = "start"
          /\ IF peek(lexer).tokentype[1] = "SCurly"
             THEN \E c \in Consumes(lexer) :
                    /\ lexer' = c.lexer
                    /\ IF IsErr(c.res) THEN Return(c.res)
                       ELSE Goto([Top EXCEPT !.pc = "newlines"])
             ELSE Return(Err(NotFound)) /\ UNCHANGED lexer
       \/ /\ Top.pc = "newlines"
          /\ IF peek(lexer).tokentype[1] = "NewLine"
             THEN \E c \in Consumes(lexer) :
                    /\ lexer' = c.lexer
                    /\ IF IsErr(c.res) THEN Return(c.res) ELSE Goto(Top)
             ELSE /\ Call([Top EXCEPT !.pc = "after_stmt"], Frame("stmt", "start"))
                  /\ UNCHANGED lexer
       \/ /\ Top.pc = "after_stmt"
          /\ IF IsNotFound(ret) THEN BlockEnd(lexer, Top.stmts)
             ELSE IF IsErr(ret) THEN Return(ret) /\ UNCHANGED lexer
             ELSE LET stmts == Append(Top.stmts, ret[2])
                  IN IF peek(lexer).tokentype[1] = "NewLine"
                     THEN \E c \in Consumes(lexer) :
                            /\ lexer' = c.lexer
                            /\ IF IsErr(c.res) THEN Return(c.res)
                               ELSE Goto([Top EXCEPT !.pc = "newlines", !.stmts = stmts])
                     ELSE BlockEnd(lexer, stmts)

\* Parser::exit
Parser_exit ==
    /\ stack # <<>> /\ Top.fn = "exit"
    /\ UNCHANGED not_parser_vars
    /\ UNCHANGED <<rexp_nesting_level, program>>
    /\ \/ /\ Top.pc = "start"
          /\ IF peek(lexer).tokentype[1] = "Exit"
             THEN \E c \in Consumes(lexer) :
                    /\ lexer' = c.lexer
                    /\ IF IsErr(c.res) THEN Return(c.res)
                       ELSE Call([Top EXCEPT !.pc = "rexp", !.exit_kw_loc = peek(lexer).end],
                                 Parser_rexp)
             ELSE Return(Err(NotFound)) /\ UNCHANGED lexer
       \/ /\ Top.pc = "rexp"
          /\ LET r == handle_not_found(ret, <<"ExpectedExpression", Top.exit_kw_loc>>)
             IN IF IsErr(r) THEN Return(r) ELSE Return(Ok(<<"Exit", r[2]>>))
          /\ UNCHANGED lexer

\* Parser::assign_stmt_or_rexp
Parser_assign_stmt_or_rexp ==
    /\ stack # <<>> /\ Top.fn = "assign_stmt_or_rexp"
    /\ UNCHANGED not_parser_vars
    /\ UNCHANGED <<rexp_nesting_level, program>>
    /\ \/ /\ Top.pc = "start"
          /\ Call([Top EXCEPT !.pc = "exp"], Parser_rexp)
          /\ UNCHANGED lexer
       \/ /\ Top.pc = "exp"
          /\ LET r == handle_not_found(ret, <<"ExpectedExpression", peek(lexer).start>>)
             IN IF IsErr(r) THEN Return(r) /\ UNCHANGED lexer
                ELSE IF peek(lexer).tokentype[1] # "Assign"
                THEN Return(Ok(<<"RExp", r[2]>>)) /\ UNCHANGED lexer
                ELSE \E c \in Consumes(lexer) :
                       /\ lexer' = c.lexer
                       /\ IF IsErr(c.res) THEN Return(c.res)
                          ELSE LET lexp == LExp_try_from(r[2])
                               IN IF IsErr(lexp)
                                  THEN Return(Err(<<"RExpOnLHS", lexp[2]>>))
                                  ELSE Call([Top EXCEPT !.pc = "rexp", !.exp = r[2],
                                                        !.lexp = lexp[2],
                                                        !.assign_loc = peek(lexer).end],
                                            Parser_rexp)
       \/ /\ Top.pc = "rexp"
          /\ LET r == handle_not_found(ret, <<"ExpectedExpression", Top.assign_loc>>)
             IN IF IsErr(r) THEN Return(r)
                ELSE Return(Ok(<<"Assign", Top.lexp, r[2]>>))
          /\ UNCHANGED lexer

\* The loop of Parser::rexp_min_prec, entered with the expression built so far.
RexpLoop(rexp) ==
    LET op == peek(lexer)
    IN IF ~is_op(op.tokentype) THEN Return(Ok(rexp)) /\ UNCHANGED lexer
       ELSE LET pa == op_prec_and_assoc(op.tokentype)
                next_min_prec == IF pa[2] = "Left" THEN pa[1] + 1 ELSE pa[1]
            IN IF pa[1] < Top.min_prec THEN Return(Ok(rexp)) /\ UNCHANGED lexer
               ELSE \E c \in Consumes(lexer) :
                      /\ lexer' = c.lexer
                      /\ IF IsErr(c.res) THEN Return(c.res)
                         ELSE Call([Top EXCEPT !.pc = "rhs", !.rexp = rexp,
                                               !.op = op.tokentype,
                                               !.op_location = op.end],
                                   rexp_frame(next_min_prec))

\* Parser::rexp_min_prec
Parser_rexp_min_prec ==
    /\ stack # <<>> /\ Top.fn = "rexp_min_prec"
    /\ UNCHANGED not_parser_vars
    /\ UNCHANGED <<rexp_nesting_level, program>>
    /\ \/ /\ Top.pc = "start"
          /\ Call([Top EXCEPT !.pc = "term"], Frame("term", "start"))
          /\ UNCHANGED lexer
       \/ /\ Top.pc = "term"
          /\ IF IsErr(ret) THEN Return(ret) /\ UNCHANGED lexer
             ELSE RexpLoop(RExp_from(ret[2]))
       \/ /\ Top.pc = "rhs"
          /\ LET r == handle_not_found(ret, <<"ExpectedExpression", Top.op_location>>)
             IN IF IsErr(r) THEN Return(r) /\ UNCHANGED lexer
                ELSE RexpLoop(RExp_combine(Top.op, Top.rexp, r[2]))

\* Parser::term
Parser_term ==
    /\ stack # <<>> /\ Top.fn = "term"
    /\ UNCHANGED not_parser_vars
    /\ UNCHANGED program
    /\ \/ /\ Top.pc = "start"
          /\ LET token == peek(lexer)
                 tt == token.tokentype[1]
             IN IF tt \in {"Ident", "IntLiteral"}
                THEN /\ \E c \in Consumes(lexer) :
                          /\ lexer' = c.lexer
                          /\ IF IsErr(c.res) THEN Return(c.res)
                             ELSE Return(Ok(Term_try_from(token)))
                     /\ UNCHANGED rexp_nesting_level
                ELSE IF tt = "Minus"
                THEN /\ \E c \in Consumes(lexer) :
                          /\ lexer' = c.lexer
                          /\ IF IsErr(c.res) THEN Return(c.res)
                             ELSE Call([Top EXCEPT !.pc = "neg"], Frame("term", "start"))
                     /\ UNCHANGED rexp_nesting_level
                ELSE IF tt = "SBrace"
                THEN /\ rexp_nesting_level' = rexp_nesting_level + 1
                     /\ \E c \in Consumes([lexer EXCEPT !.emit_newline = FALSE]) :
                          /\ lexer' = c.lexer
                          /\ IF IsErr(c.res) THEN Return(c.res)
                             ELSE Call([Top EXCEPT !.pc = "inner"], Parser_rexp)
                ELSE /\ Return(Err(NotFound))
                     /\ UNCHANGED <<lexer, rexp_nesting_level>>
       \/ /\ Top.pc = "neg"
          /\ IF IsErr(ret) THEN Return(ret) ELSE Return(Ok(<<"Neg", ret[2]>>))
          /\ UNCHANGED <<lexer, rexp_nesting_level>>
       \/ /\ Top.pc = "inner"
          /\ LET r == handle_not_found(ret, <<"ExpectedExpression", peek(lexer).start>>)
                 token == peek(lexer)
             IN IF IsErr(r) THEN Return(r) /\ UNCHANGED <<lexer, rexp_nesting_level>>
                ELSE IF token.tokentype[1] = "EBrace"
                THEN /\ rexp_nesting_level' = rexp_nesting_level - 1
                     /\ \E c \in Consumes(
                               [lexer EXCEPT !.emit_newline =
                                   IF rexp_nesting_level - 1 <= 0 THEN TRUE ELSE @]) :
                          /\ lexer' = c.lexer
                          /\ IF IsErr(c.res) THEN Return(c.res)
                             ELSE Return(Ok(<<"Bracketed", r[2]>>))
                ELSE /\ Return(Err(<<"UnexpectedToken", token>>))
                     /\ UNCHANGED <<lexer, rexp_nesting_level>>

\* Parser::decl_or_init
Parser_decl_or_init ==
    /\ stack # <<>> /\ Top.fn = "decl_or_init"
    /\ UNCHANGED not_parser_vars
    /\ UNCHANGED <<rexp_nesting_level, program>>
    /\ \/ /\ Top.pc = "let"
          /\ peek(lexer).tokentype[1] = "Let"
          /\ \E c \in Consumes(lexer) :
               /\ lexer' = c.lexer
               /\ IF IsErr(c.res) THEN Return(c.res)
                  ELSE Goto([fn |-> "decl_or_init", pc |-> "ident", ident |-> None])
       \/ /\ Top.pc = "ident"
          /\ LET token == peek(lexer)
             IN IF token.tokentype[1] = "Ident"
                THEN \E c \in Consumes(lexer) :
                       /\ lexer' = c.lexer
                       /\ IF IsErr(c.res) THEN Return(c.res)
                          ELSE Goto([Top EXCEPT !.pc = "assign", !.ident = Identifier(token)])
                ELSE Return(Err(<<"ExpectedIdent", token.start>>)) /\ UNCHANGED lexer
       \/ /\ Top.pc = "assign"
          /\ IF peek(lexer).tokentype[1] = "Assign"
             THEN \E c \in Consumes(lexer) :
                    /\ lexer' = c.lexer
                    /\ IF IsErr(c.res) THEN Return(c.res)
                       ELSE Call([Top EXCEPT !.pc = "rexp"], Parser_rexp)
             ELSE Return(Ok(<<"Declare", Top.ident>>)) /\ UNCHANGED lexer
       \/ /\ Top.pc = "rexp"
          /\ LET r == handle_not_found(ret, <<"ExpectedExpression", peek(lexer).start>>)
             IN IF IsErr(r) THEN Return(r)
                ELSE Return(Ok(<<"Initialize", Top.ident, r[2]>>))
          /\ UNCHANGED lexer

ParserNext ==
    \/ Parser_parse_program
    \/ Parser_skip_newlines
    \/ Parser_stmt
    \/ Parser_if_
    \/ Parser_block
    \/ Parser_exit
    \/ Parser_assign_stmt_or_rexp
    \/ Parser_rexp_min_prec
    \/ Parser_term
    \/ Parser_decl_or_init

----------------------------------------------------------------------------
(* Scope chain (src/codegen/codegen.rs: Symbol, Env)                       *)

\* Env::register_symbol advances the frame offset by this much.
SlotBytes == 8
\* Env::declare and Env::initialize build every symbol with this size.
SymbolSizeBytes == 8

\* Env::new
Env_new ==
    [symtable |-> <<>>, shadow_counts |-> <<>>, current_rbp_offset |-> 0]

\* A nested scope whose frame offset starts from zero again.
Env_with_tail_unseeded(tail) ==
    [symtable |-> <<>>, shadow_counts |-> <<>>, current_rbp_offset |-> 0]

\* Env::with_tail.  The prev pointer is the next Env down the call stack.
Env_with_tail(tail) ==
    [symtable |-> <<>>, shadow_counts |-> <<>>,
     current_rbp_offset |-> tail.current_rbp_offset]

\* Env::get_shadow_count
Env_get_shadow_count(self, lexeme) ==
    IF lexeme \in DOMAIN self.shadow_counts THEN self.shadow_counts[lexeme] ELSE 0

\* format!("{}_{}", lexeme, shadow_count)
Decorated(lexeme, shadow_count) == <<lexeme, shadow_count>>

\* A lookup that prefers the binding of the outermost scope holding the name.
RECURSIVE Env_get_symbol_outer_first(_, _)
Env_get_symbol_outer_first(chain, lexeme) ==
    LET self == chain[1]
        decorated_lexeme == Decorated(lexeme, Env_get_shadow_count(self, lexeme))
        outer == IF Len(chain) = 1 THEN <<"None">>
                 ELSE Env_get_symbol_outer_first(Tail(chain), lexeme)
    IN IF outer[1] = "Some" THEN outer
       ELSE IF decorated_lexeme \in DOMAIN self.symtable
       THEN <<"Some", self.symtable[decorated_lexeme]>>
       ELSE <<"None">>

\* A lookup that stops at the current scope.
Env_get_symbol_local(chain, lexeme) ==
    LET self == chain[1]
        decorated_lexeme == Decorated(lexeme, Env_get_shadow_count(self, lexeme))
    IN IF decorated_lexeme \in DOMAIN self.symtable
       THEN <<"Some", self.symtable[decorated_lexeme]>>
       ELSE <<"None">>

\* Env::get_symbol on the chain of scopes, innermost first.
RECURSIVE Env_get_symbol(_, _)
Env_get_symbol(chain, lexeme) ==
    LET self == chain[1]
        decorated_lexeme == Decorated(lexeme, Env_get_shadow_count(self, lexeme))
    IN IF decorated_lexeme \in DOMAIN self.symtable
       THEN <<"Some", self.symtable[decorated_lexeme]>>
       ELSE IF Len(chain) = 1 THEN <<"None">>
       ELSE Env_get_symbol(Tail(chain), lexeme)

\* A register_symbol that starts no new generation for a name it holds.
Env_register_symbol_same_generation(self, lexeme, size_bytes, initialized) ==
    LET shadow_count == IF lexeme \in DOMAIN self.shadow_counts
                        THEN self.shadow_counts[lexeme] ELSE 1
        decorated_lexeme == Decorated(lexeme, shadow_count)
        offset == self.current_rbp_offset + SlotBytes
    IN [self EXCEPT
          !.shadow_counts = (lexeme :> shadow_count) @@ self.shadow_counts,
          !.current_rbp_offset = offset,
          !.symtable = (decorated_lexeme :>
                          [decorated_lexeme |-> decorated_lexeme,
                           size_bytes |-> size_bytes,
                           rbp_offset |-> offset,
                           initialized |-> initialized]) @@ self.symtable]

\* Env::register_symbol, with the SymbolBuilder's size and initialized flag.
Env_register_symbol(self, lexeme, size_bytes, initialized) ==
    LET shadow_count == Env_get_shadow_count(self, lexeme) + 1
        decorated_lexeme == Decorated(lexeme, shadow_count)
        offset == self.current_rbp_offset + SlotBytes
    IN [self EXCEPT
          !.shadow_counts = (lexeme :> shadow_count) @@ self.shadow_counts,
          !.current_rbp_offset = offset,
          !.symtable = (decorated_lexeme :>
                          [decorated_lexeme |-> decorated_lexeme,
                           size_bytes |-> size_bytes,
                           rbp_offset |-> offset,
                           initialized |-> initialized]) @@ self.symtable]

\* Env::declare
Env_declare(self, ident) == Env_register_symbol(self, ident[2], SymbolSizeBytes, FALSE)
\* Env::initialize
Env_initialize(self, ident) == Env_register_symbol(self, ident[2], SymbolSizeBytes, TRUE)

----------------------------------------------------------------------------
(* Label decorator (src/codegen/string_decorator.rs)                       *)

\* A decorator that numbers every string from one counter shared by all.
RECURSIVE TotalOf(_, _)
TotalOf(decoration_indices, strings) ==
    IF strings = {} THEN 0
    ELSE LET string == CHOOSE x \in strings : TRUE
         IN decoration_indices[string] + TotalOf(decoration_indices, strings \ {string})
decorate_and_increment_shared(decoration_indices, string) ==
    LET index == TotalOf(decoration_indices, DOMAIN decoration_indices)
        own == IF string \in DOMAIN decoration_indices
               THEN decoration_indices[string] ELSE 0
    IN [decorated |-> <<string, index>>,
        decoration_indices |-> (string :> (own + 1)) @@ decoration_indices]

\* StringDecorator::decorate_and_increment: the decorated string and the
\* decorator afterwards.
decorate_and_increment(decoration_indices, string) ==
    LET index == IF string \in DOMAIN decoration_indices
                 THEN decoration_indices[string] ELSE 0
    IN [decorated |-> <<string, index>>,
        decoration_indices |-> (string :> (index + 1)) @@ decoration_indices]

----------------------------------------------------------------------------
(* Code generator (src/codegen/codegen.rs: Asm)                            *)

\* Asm::stmt, Asm::label, Asm::comment: one line of Asm.text each.
Asm_stmt(s) == <<"stmt", s>>
Asm_stmt1(s, n) == <<"stmt", s, n>>
Asm_label(l) == <<"label", l>>
Asm_comment(c) == <<"comment", c>>

\* The outcome of emitting code: a result and the lines appended.
Emit(res, text) == [res |-> res, text |-> text]

\* Asm::ident
Asm_ident(ident, chain) ==
    LET sym == Env_get_symbol(chain, ident[2])
    IN IF sym[1] = "None" THEN Emit(Err(<<"UndeclaredIdent", ident>>), <<>>)
       ELSE Emit(Ok(<<>>), << Asm_stmt(""), Asm_comment(sym[2].decorated_lexeme),
                              Asm_stmt1("push qword [rbp-N]", sym[2].rbp_offset) >>)

\* Asm::intlit
Asm_intlit(intlit) ==
    Emit(Ok(<<>>), << Asm_stmt(""), Asm_comment(intlit[2]),
                      Asm_stmt1("mov rax, N", intlit[2]), Asm_stmt("push rax") >>)

\* The instructions Asm::rexp passes to binary_operator for each operator.
BinaryOpCode(kind) ==
    CASE kind = "Add" -> << Asm_stmt("add rax, rbx") >>
      [] kind = "Sub" -> << Asm_stmt("sub rax, rbx") >>
      [] kind = "Mul" -> << Asm_stmt("mul rbx") >>
      [] kind = "Div" -> << Asm_stmt("xor rdx, rdx"), Asm_stmt("div rbx") >>
      [] kind = "Equal" ->
           << Asm_stmt("cmp rax, rbx"), Asm_stmt("sete al"), Asm_stmt("and rax, 255") >>
      [] kind = "NotEqual" ->
           << Asm_stmt("cmp rax, rbx"), Asm_stmt("setne al"), Asm_stmt("and rax, 255") >>
      [] kind = "Less" ->
           << Asm_stmt("cmp rax, rbx"), Asm_stmt("setl al"), Asm_stmt("and rax, 255") >>
      [] kind = "LessEqual" ->
           << Asm_stmt("cmp rax, rbx"), Asm_stmt("setle al"), Asm_stmt("and rax, 255") >>
      [] kind = "Greater" ->
           << Asm_stmt("cmp rax, rbx"), Asm_stmt("setg al"), Asm_stmt("and rax, 255") >>
      [] kind = "GreaterEqual" ->
           << Asm_stmt("cmp rax, rbx"), Asm_stmt("setge al"), Asm_stmt("and rax, 255") >>

\* Asm::rexp, Asm::term and Asm::binary_operator.  The Env is only read.
RECURSIVE Asm_rexp(_, _)
RECURSIVE Asm_term(_, _)
Asm_term(term, chain) ==
    CASE term[1] = "LExp" -> Asm_ident(term[2], chain)
      [] term[1] = "IntLit" -> Asm_intlit(term)
      [] term[1] = "Neg" ->
           LET inner == Asm_term(term[2], chain)
           IN IF IsErr(inner.res) THEN inner
              ELSE Emit(Ok(<<>>), inner.text \o
                        << Asm_stmt("pop rax"), Asm_stmt(""), Asm_comment("neg"),
                           Asm_stmt("neg rax"), Asm_stmt("push rax") >>)
      [] term[1] = "Bracketed" -> Asm_rexp(term[2], chain)

\* A binary operator whose code leaves its result in rax without pushing it.
Asm_binary_operator_no_push(bin_exp, lhs, rhs, chain) ==
    LET l == Asm_rexp(lhs, chain)
    IN IF IsErr(l.res) THEN l
       ELSE LET r == Asm_rexp(rhs, chain)
            IN IF IsErr(r.res) THEN Emit(r.res, l.text \o r.text)
               ELSE Emit(Ok(<<>>),
                         ((l.text \o r.text) \o
                          << Asm_stmt(""), Asm_comment(bin_exp[1]),
                             Asm_stmt("pop rbx"), Asm_stmt("pop rax") >>) \o
                         BinaryOpCode(bin_exp[1]))

\* A binary operator that pops the left operand into rbx, the right into rax.
Asm_binary_operator_swapped(bin_exp, lhs, rhs, chain) ==
    LET l == Asm_rexp(lhs, chain)
    IN IF IsErr(l.res) THEN l
       ELSE LET r == Asm_rexp(rhs, chain)
            IN IF IsErr(r.res) THEN Emit(r.res, l.text \o r.text)
               ELSE Emit(Ok(<<>>),
                         ((l.text \o r.text) \o
                          << Asm_stmt(""), Asm_comment(bin_exp[1]),
                             Asm_stmt("pop rax"), Asm_stmt("pop rbx") >>) \o
                         (BinaryOpCode(bin_exp[1]) \o << Asm_stmt("push rax") >>))

Asm_binary_operator(bin_exp, lhs, rhs, chain) ==
    LET l == Asm_rexp(lhs, chain)
    IN IF IsErr(l.res) THEN l
       ELSE LET r == Asm_rexp(rhs, chain)
            IN IF IsErr(r.res) THEN Emit(r.res, l.text \o r.text)
               ELSE Emit(Ok(<<>>),
                         ((l.text \o r.text) \o
                          << Asm_stmt(""), Asm_comment(bin_exp[1]),
                             Asm_stmt("pop rbx"), Asm_stmt("pop rax") >>) \o
                         (BinaryOpCode(bin_exp[1]) \o << Asm_stmt("push rax") >>))

Asm_rexp(rexp, chain) ==
    IF rexp[1] = "Term" THEN Asm_term(rexp[2], chain)
    ELSE Asm_binary_operator(rexp, rexp[2], rexp[3], chain)

\* The scopes visible from the newest frame: the new_env of every gen_block
\* on the call stack, innermost first.
RECURSIVE Chain(_)
Chain(st) ==
    IF st = <<>> THEN <<>>
    ELSE IF Head(st).fn = "gen_block" THEN <<Head(st).new_env>> \o Chain(Tail(st))
    ELSE Chain(Tail(st))

\* A gen_stmt whose Initialize registers the binding before it resolves the
\* initializer.
Asm_gen_stmt_binding_first(stmt, chain) ==
    LET env == chain[1]
        Out(res, text, e) == [res |-> res, text |-> text, env |-> e]
    IN CASE stmt[1] = "Declare" ->
              LET e == Env_declare(env, stmt[2])
                  sym == Env_get_symbol(<<e>> \o Tail(chain), stmt[2][2])[2]
              IN Out(Ok(<<>>),
                     << Asm_stmt(""), Asm_comment(<<"let", sym.decorated_lexeme>>),
                        Asm_stmt1("sub rsp, N", sym.size_bytes) >>, e)
         [] stmt[1] = "Initialize" ->
              LET head == << Asm_stmt(""), Asm_comment("let"), Asm_stmt("") >>
                  e == Env_initialize(env, stmt[2])
                  r == Asm_rexp(stmt[3], <<e>> \o Tail(chain))
                  l_sym == Env_get_symbol(<<e>> \o Tail(chain), stmt[2][2])[2]
              IN IF IsErr(r.res) THEN Out(r.res, head \o r.text, env)
                 ELSE Out(Ok(<<>>),
                          (head \o r.text) \o
                          << Asm_stmt(""), Asm_comment(<<"let", l_sym.decorated_lexeme>>),
                             Asm_stmt("pop rax"),
                             Asm_stmt1("sub rsp, N", l_sym.size_bytes),
                             Asm_stmt1("mov qword [rbp-N], rax", l_sym.rbp_offset) >>, e)
         [] stmt[1] = "Assign" ->
              LET l_sym == Env_get_symbol(chain, stmt[2][2])
                  head == << Asm_stmt(""), Asm_comment("=") >>
                  r == Asm_rexp(stmt[3], chain)
              IN IF l_sym[1] = "None"
                 THEN Out(Err(<<"UndeclaredIdent", stmt[2]>>), <<>>, env)
                 ELSE IF IsErr(r.res) THEN Out(r.res, head \o r.text, env)
                 ELSE Out(Ok(<<>>),
                          (head \o r.text) \o
                          << Asm_stmt(""), Asm_comment("="), Asm_stmt("pop rax"),
                             Asm_stmt1("mov qword [rbp-N], rax", l_sym[2].rbp_offset) >>,
                          env)
         [] stmt[1] = "RExp" ->
              LET r == Asm_rexp(stmt[2], chain)
              IN Out(r.res, << Asm_comment("rexp") >> \o r.text, env)
         [] stmt[1] = "Exit" ->
              LET r == Asm_rexp(stmt[2], chain)
              IN IF IsErr(r.res) THEN Out(r.res, r.text, env)
                 ELSE Out(Ok(<<>>),
                          r.text \o
                          << Asm_stmt(""), Asm_comment("exit"), Asm_stmt("pop rax"),
                             Asm_stmt("mov rcx, rax"), Asm_stmt("call ExitProcess") >>,
                          env)

\* gen_stmt whose code for `exit` leaves rcx as it is.
Asm_gen_stmt_exit_unpassed(stmt, chain) ==
    LET env == chain[1]
        Out(res, text, e) == [res |-> res, text |-> text, env |-> e]
    IN CASE stmt[1] = "Declare" ->
              LET e == Env_declare(env, stmt[2])
                  sym == Env_get_symbol(<<e>> \o Tail(chain), stmt[2][2])[2]
              IN Out(Ok(<<>>),
                     << Asm_stmt(""), Asm_comment(<<"let", sym.decorated_lexeme>>),
                        Asm_stmt1("sub rsp, N", sym.size_bytes) >>, e)
         [] stmt[1] = "Initialize" ->
              LET head == << Asm_stmt(""), Asm_comment("let"), Asm_stmt("") >>
                  r == Asm_rexp(stmt[3], chain)
                  e == Env_initialize(env, stmt[2])
                  l_sym == Env_get_symbol(<<e>> \o Tail(chain), stmt[2][2])[2]
              IN IF IsErr(r.res) THEN Out(r.res, head \o r.text, env)
                 ELSE Out(Ok(<<>>),
                          (head \o r.text) \o
                          << Asm_stmt(""), Asm_comment(<<"let", l_sym.decorated_lexeme>>),
                             Asm_stmt("pop rax"),
                             Asm_stmt1("sub rsp, N", l_sym.size_bytes),
                             Asm_stmt1("mov qword [rbp-N], rax", l_sym.rbp_offset) >>, e)
         [] stmt[1] = "Assign" ->
              LET l_sym == Env_get_symbol(chain, stmt[2][2])
                  head == << Asm_stmt(""), Asm_comment("=") >>
                  r == Asm_rexp(stmt[3], chain)
              IN IF l_sym[1] = "None"
                 THEN Out(Err(<<"UndeclaredIdent", stmt[2]>>), <<>>, env)
                 ELSE IF IsErr(r.res) THEN Out(r.res, head \o r.text, env)
                 ELSE Out(Ok(<<>>),
                          (head \o r.text) \o
                          << Asm_stmt(""), Asm_comment("="), Asm_stmt("pop rax"),
                             Asm_stmt1("mov qword [rbp-N], rax", l_sym[2].rbp_offset) >>,
                          env)
         [] stmt[1] = "RExp" ->
              LET r == Asm_rexp(stmt[2], chain)
              IN Out(r.res, << Asm_comment("rexp") >> \o r.text, env)
         [] stmt[1] = "Exit" ->
              LET r == Asm_rexp(stmt[2], chain)
              IN IF IsErr(r.res) THEN Out(r.res, r.text, env)
                 ELSE Out(Ok(<<>>),
                          r.text \o
                          << Asm_stmt(""), Asm_comment("exit"), Asm_stmt("pop rax"),
                             Asm_stmt("call ExitProcess") >>,
                          env)

\* gen_stmt whose code for `let x = e` stores the value without moving rsp.
Asm_gen_stmt_unallocated(stmt, chain) ==
    LET env == chain[1]
        Out(res, text, e) == [res |-> res, text |-> text, env |-> e]
    IN CASE stmt[1] = "Declare" ->
              LET e == Env_declare(env, stmt[2])
                  sym == Env_get_symbol(<<e>> \o Tail(chain), stmt[2][2])[2]
              IN Out(Ok(<<>>),
                     << Asm_stmt(""), Asm_comment(<<"let", sym.decorated_lexeme>>),
                        Asm_stmt1("sub rsp, N", sym.size_bytes) >>, e)
         [] stmt[1] = "Initialize" ->
              LET head == << Asm_stmt(""), Asm_comment("let"), Asm_stmt("") >>
                  r == Asm_rexp(stmt[3], chain)
                  e == Env_initialize(env, stmt[2])
                  l_sym == Env_get_symbol(<<e>> \o Tail(chain), stmt[2][2])[2]
              IN IF IsErr(r.res) THEN Out(r.res, head \o r.text, env)
                 ELSE Out(Ok(<<>>),
                          (head \o r.text) \o
                          << Asm_stmt(""), Asm_comment(<<"let", l_sym.decorated_lexeme>>),
                             Asm_stmt("pop rax"),
                             Asm_stmt1("mov qword [rbp-N], rax", l_sym.rbp_offset) >>, e)
         [] stmt[1] = "Assign" ->
              LET l_sym == Env_get_symbol(chain, stmt[2][2])
                  head == << Asm_stmt(""), Asm_comment("=") >>
                  r == Asm_rexp(stmt[3], chain)
              IN IF l_sym[1] = "None"
                 THEN Out(Err(<<"UndeclaredIdent", stmt[2]>>), <<>>, env)
                 ELSE IF IsErr(r.res) THEN Out(r.res, head \o r.text, env)
                 ELSE Out(Ok(<<>>),
                          (head \o r.text) \o
                          << Asm_stmt(""), Asm_comment("="), Asm_stmt("pop rax"),
                             Asm_stmt1("mov qword [rbp-N], rax", l_sym[2].rbp_offset) >>,
                          env)
         [] stmt[1] = "RExp" ->
              LET r == Asm_rexp(stmt[2], chain)
              IN Out(r.res, << Asm_comment("rexp") >> \o r.text, env)
         [] stmt[1] = "Exit" ->
              LET r == Asm_rexp(stmt[2], chain)
              IN IF IsErr(r.res) THEN Out(r.res, r.text, env)
                 ELSE Out(Ok(<<>>),
                          r.text \o
                          << Asm_stmt(""), Asm_comment("exit"), Asm_stmt("pop rax"),
                             Asm_stmt("mov rcx, rax"), Asm_stmt("call ExitProcess") >>,
                          env)

\* Asm::gen_stmt for Declare, Initialize, Assign, RExp and Exit, given the
\* scope chain whose first Env is the `env` it may change: the result, the
\* lines appended and `env` afterwards.
Asm_gen_stmt(stmt, chain) ==
    LET env == chain[1]
        Out(res, text, e) == [res |-> res, text |-> text, env |-> e]
    IN CASE stmt[1] = "Declare" ->
              LET e == Env_declare(env, stmt[2])
                  sym == Env_get_symbol(<<e>> \o Tail(chain), stmt[2][2])[2]
              IN Out(Ok(<<>>),
                     << Asm_stmt(""), Asm_comment(<<"let", sym.decorated_lexeme>>),
                        Asm_stmt1("sub rsp, N", sym.size_bytes) >>, e)
         [] stmt[1] = "Initialize" ->
              LET head == << Asm_stmt(""), Asm_comment("let"), Asm_stmt("") >>
                  r == Asm_rexp(stmt[3], chain)
                  e == Env_initialize(env, stmt[2])
                  l_sym == Env_get_symbol(<<e>> \o Tail(chain), stmt[2][2])[2]
              IN IF IsErr(r.res) THEN Out(r.res, head \o r.text, env)
                 ELSE Out(Ok(<<>>),
                          (head \o r.text) \o
                          << Asm_stmt(""), Asm_comment(<<"let", l_sym.decorated_lexeme>>),
                             Asm_stmt("pop rax"),
                             Asm_stmt1("sub rsp, N", l_sym.size_bytes),
                             Asm_stmt1("mov qword [rbp-N], rax", l_sym.rbp_offset) >>, e)
         [] stmt[1] = "Assign" ->
              LET l_sym == Env_get_symbol(chain, stmt[2][2])
                  head == << Asm_stmt(""), Asm_comment("=") >>
                  r == Asm_rexp(stmt[3], chain)
              IN IF l_sym[1] = "None"
                 THEN Out(Err(<<"UndeclaredIdent", stmt[2]>>), <<>>, env)
                 ELSE IF IsErr(r.res) THEN Out(r.res, head \o r.text, env)
                 ELSE Out(Ok(<<>>),
                          (head \o r.text) \o
                          << Asm_stmt(""), Asm_comment("="), Asm_stmt("pop rax"),
                             Asm_stmt1("mov qword [rbp-N], rax", l_sym[2].rbp_offset) >>,
                          env)
         [] stmt[1] = "RExp" ->
              LET r == Asm_rexp(stmt[2], chain)
              IN Out(r.res, << Asm_comment("rexp") >> \o r.text, env)
         [] stmt[1] = "Exit" ->
              LET r == Asm_rexp(stmt[2], chain)
              IN IF IsErr(r.res) THEN Out(r.res, r.text, env)
                 ELSE Out(Ok(<<>>),
                          r.text \o
                          << Asm_stmt(""), Asm_comment("exit"), Asm_stmt("pop rax"),
                             Asm_stmt("mov rcx, rax"), Asm_stmt("call ExitProcess") >>,
                          env)

\* An `if` head whose branch-if-zero goes to the label after the else part.
Asm_gen_stmt_if_head_jz_end(stmt, chain, decoration_indices) ==
    LET d1 == decorate_and_increment(decoration_indices,
                  IF stmt[3] = "none" THEN "end_if" ELSE "else_start")
        d2 == IF stmt[3] = "none" THEN d1
              ELSE decorate_and_increment(d1.decoration_indices, "else_end")
        r == Asm_rexp(stmt[2], chain)
    IN [res |-> r.res,
        text |-> IF IsErr(r.res) THEN r.text
                 ELSE r.text \o << Asm_comment("== 0"), Asm_stmt("pop rax"),
                                   Asm_stmt("test rax, rax"),
                                   Asm_stmt1("jz L", d2.decorated), Asm_comment("if") >>,
        decoration_indices |-> d2.decoration_indices,
        label1 |-> d1.decorated,
        label2 |-> d2.decorated]

\* The part of Asm::gen_stmt for Stmt::If that comes before the then-block:
\* the labels, the condition, the branch.
Asm_gen_stmt_if_head(stmt, chain, decoration_indices) ==
    LET d1 == decorate_and_increment(decoration_indices,
                  IF stmt[3] = "none" THEN "end_if" ELSE "else_start")
        d2 == IF stmt[3] = "none" THEN d1
              ELSE decorate_and_increment(d1.decoration_indices, "else_end")
        r == Asm_rexp(stmt[2], chain)
    IN [res |-> r.res,
        text |-> IF IsErr(r.res) THEN r.text
                 ELSE r.text \o << Asm_comment("== 0"), Asm_stmt("pop rax"),
                                   Asm_stmt("test rax, rax"),
                                   Asm_stmt1("jz L", d1.decorated), Asm_comment("if") >>,
        decoration_indices |-> d2.decoration_indices,
        label1 |-> d1.decorated,
        label2 |-> d2.decorated]

\* An Asm that starts with the label counters the last compilation left.
Asm_default_stale == [label_decorator |-> label_decorator, text |-> <<>>]

\* Asm::default: no label handed out, no text.
Asm_default == [label_decorator |-> <<>>, text |-> <<>>]

\* The kind of the else part of a Stmt::If as Asm::gen_stmt tells them apart.
ElseKind(stmt) ==
    IF stmt[4] = <<>> THEN "none"
    ELSE IF stmt[4][1][1] = "Block" THEN "block" ELSE "if"

\* What gen_stmt returns for a Stmt::If from what its parts returned: `h`
\* the head (labels, condition, branch), `t` the then-block, `e` the else
\* part (read only when there is one); each `?` returns the first error.
Asm_gen_stmt_if_join(kind, env, h, t, e) ==
    LET Out(res, text, d) ==
            [res |-> res, text |-> text, env |-> env, decoration_indices |-> d]
        upto_else == (h.text \o t.text) \o
                     << Asm_stmt1("jmp L", h.label2), Asm_label(h.label1) >>
        else_comment == IF kind = "block"
                        THEN Asm_comment("else {") ELSE Asm_comment("else if {")
    IN IF IsErr(h.res) THEN Out(h.res, h.text, h.decoration_indices)
       ELSE IF IsErr(t.res)
       THEN Out(t.res, h.text \o t.text, t.decoration_indices)
       ELSE IF kind = "none"
       THEN Out(Ok(<<>>), (h.text \o t.text) \o << Asm_label(h.label1) >>,
                t.decoration_indices)
       ELSE IF IsErr(e.res)
       THEN Out(e.res, (upto_else \o <<else_comment>>) \o e.text,
                e.decoration_indices)
       ELSE Out(Ok(<<>>),
                ((upto_else \o <<else_comment>>) \o e.text) \o
                << Asm_comment("}"), Asm_label(h.label2) >>,
                e.decoration_indices)

\* What the loop of gen_block returns from the outcome `r` of its first
\* statement and the outcome `rest` of the statements after it.
Asm_gen_block_join(r, rest) ==
    IF IsErr(r.res) THEN r
    ELSE [rest EXCEPT !.text = r.text \o rest.text]

\* What gen_block returns from the outcome of its loop.
Asm_gen_block_close(body) ==
    [res |-> body.res,
     text |-> (<< Asm_comment("{") >> \o body.text) \o
              (IF IsErr(body.res) THEN <<>> ELSE << Asm_comment("}") >>),
     decoration_indices |-> body.decoration_indices]

\* What gen returns, and `self` afterwards, from the outcome `b` of
\* gen_block on the program.
Asm_gen_close(self, b) ==
    [res |-> b.res,
     self |-> [label_decorator |-> b.decoration_indices,
               text |-> ((self.text \o << Asm_label(<<"_start">>),
                                          Asm_stmt("mov rbp, rsp") >>) \o b.text) \o
                        (IF IsErr(b.res) THEN <<>>
                         ELSE << Asm_stmt(""), Asm_comment("exit 0"),
                                 Asm_stmt("xor rcx, rcx"),
                                 Asm_stmt("call ExitProcess") >>)]]

\* Asm::gen_stmt, Asm::gen_block and the loop of gen_block on whole
\* statements: the result, the lines appended, the label decorator
\* afterwards and (for gen_stmt and the loop) `env` afterwards.
RECURSIVE Asm_gen_stmt_whole(_, _, _)
RECURSIVE Asm_gen_block_whole(_, _, _)
RECURSIVE Asm_gen_block_loop(_, _, _)
Asm_gen_stmt_whole(stmt, chain, decoration_indices) ==
    CASE stmt[1] = "Block" ->
           [env |-> chain[1]] @@
           Asm_gen_block_whole(stmt[2], chain, decoration_indices)
      [] stmt[1] = "If" ->
           LET h == Asm_gen_stmt_if_head(<<"If", stmt[2], ElseKind(stmt)>>,
                                         chain, decoration_indices)
               t == Asm_gen_block_whole(stmt[3], chain, h.decoration_indices)
               e == IF ElseKind(stmt) = "block"
                    THEN Asm_gen_block_whole(stmt[4][1][2], chain, t.decoration_indices)
                    ELSE Asm_gen_stmt_whole(stmt[4][1], chain, t.decoration_indices)
           IN Asm_gen_stmt_if_join(ElseKind(stmt), chain[1], h, t, e)
      [] OTHER ->
           [decoration_indices |-> decoration_indices] @@ Asm_gen_stmt(stmt, chain)

Asm_gen_block_loop(stmts, chain, decoration_indices) ==
    IF stmts = <<>>
    THEN [res |-> Ok(<<>>), text |-> <<>>, env |-> chain[1],
          decoration_indices |-> decoration_indices]
    ELSE LET r == Asm_gen_stmt_whole(Head(stmts), chain, decoration_indices)
         IN Asm_gen_block_join(r,
                Asm_gen_block_loop(Tail(stmts), <<r.env>> \o Tail(chain),
                                   r.decoration_indices))

\* previous_env is the first Env of `previous`; None is the empty chain.
Asm_gen_block_whole(stmts, previous, decoration_indices) ==
    Asm_gen_block_close(
        Asm_gen_block_loop(stmts,
            << IF previous = <<>> THEN Env_new ELSE Env_with_tail(previous[1]) >>
               \o previous,
            decoration_indices))

\* Asm::gen on `self`: the result and `self` afterwards.
Asm_gen_whole(self, stmts) ==
    Asm_gen_close(self, Asm_gen_block_whole(stmts, <<>>, self.label_decorator))

\* The programs the generator is run on, chosen statement by statement as
\* gen_block walks them: identifiers, expressions and statements.
GenIdentLexemes == {"x", "y"}
GenIdent(lexeme) == <<"Ident", lexeme, 0>>
GenVar(lexeme) == <<"Term", <<"LExp", GenIdent(lexeme)>>>>
GenLit(lexeme) == <<"Term", <<"IntLit", lexeme, 0>>>>
GenExprs ==
    { GenVar("x"), GenLit("1"), <<"Add", GenLit("1"), GenVar("x")>> }
ElseKinds == {"none", "block", "if"}
\* A Stmt::If is chosen as its condition and the kind of its else part; its
\* blocks are chosen when gen_block walks them.
IfStmts(kinds) == { <<"If", e, k>> : e \in GenExprs, k \in kinds }
SimpleStmts ==
    { <<"Declare", GenIdent(i)>> : i \in GenIdentLexemes }
    \cup { <<"Initialize", GenIdent(i), e>> : i \in GenIdentLexemes, e \in GenExprs }
    \cup { <<"Assign", GenIdent(i), e>> : i \in GenIdentLexemes, e \in GenExprs }
    \cup { <<"RExp", e>> : e \in GenExprs }
    \cup { <<"Exit", e>> : e \in GenExprs }

GTop == Head(gstack)
\* A return that hands a block's frame offset to the gen_block under it.
GReturn_writing_back(v) ==
    /\ gret' = v
    /\ gstack' = IF /\ GTop.fn = "gen_block" /\ Len(gstack) > 1
                    /\ gstack[2].fn = "gen_block"
                 THEN << [gstack[2] EXCEPT !.new_env.current_rbp_offset =
                                             GTop.new_env.current_rbp_offset] >>
                      \o Tail(Tail(gstack))
                 ELSE Tail(gstack)
GReturn(v) == gstack' = Tail(gstack) /\ gret' = v
Depth == Len(Chain(gstack))

gen_block_frame(env) == [fn |-> "gen_block", pc |-> "loop", new_env |-> env]
gen_stmt_frame(stmt, h) ==
    [fn |-> "gen_stmt", pc |-> "then", stmt |-> stmt,
     label1 |-> h.label1, label2 |-> h.label2]

\* Asm::default, about to run Asm::gen.
GenInit ==
    /\ gstack = << [fn |-> "gen", pc |-> "start"] >>
    /\ gret = None
    /\ label_decorator = <<>>
    /\ emitted = <<>>
    /\ cur_stmt = None
    /\ nstmts = 0
    /\ allocs = <<>>

GenFinished == gstack = <<>>

\* The symbol a Declare or Initialize has just put into env.
Binding(env, lexeme) ==
    env.symtable[Decorated(lexeme, env.shadow_counts[lexeme])]

\* Asm::gen
Asm_gen ==
    /\ gstack # <<>> /\ GTop.fn = "gen"
    /\ UNCHANGED not_gen_vars
    /\ UNCHANGED <<label_decorator, cur_stmt, nstmts, allocs>>
    /\ \/ /\ GTop.pc = "start"
          /\ emitted' = << Asm_label(<<"_start">>), Asm_stmt("mov rbp, rsp"), Asm_comment("{") >>
          /\ gstack' = << gen_block_frame(Env_new), [GTop EXCEPT !.pc = "finish"] >>
          /\ gret' = None
       \/ /\ GTop.pc = "finish"
          /\ IF IsErr(gret) THEN GReturn(gret) /\ emitted' = <<>>
             ELSE /\ GReturn(Ok(<<>>))
                  /\ emitted' = << Asm_stmt(""), Asm_comment("exit 0"),
                                   Asm_stmt("xor rcx, rcx"), Asm_stmt("call ExitProcess") >>

\* Asm::gen_stmt for Stmt::If up to its then-block, called with the frames
\* `below` under it: the labels, the condition, then gen_block(if_block).
GenIf(s, below, pre) ==
    LET h == Asm_gen_stmt_if_head(s, Chain(below), label_decorator)
    IN /\ label_decorator' = h.decoration_indices
       /\ IF IsErr(h.res)
          THEN /\ emitted' = pre \o h.text
               /\ gstack' = Tail(below)
               /\ gret' = h.res
          ELSE /\ emitted' = (pre \o h.text) \o << Asm_comment("{") >>
               /\ gstack' = << gen_block_frame(Env_with_tail(Chain(below)[1])),
                               gen_stmt_frame(s, h) >> \o below
               /\ gret' = None

\* Asm::gen_block: one turn of its loop (the next statement, handed to
\* gen_stmt), or its end.
Asm_gen_block ==
    /\ gstack # <<>> /\ GTop.fn = "gen_block"
    /\ UNCHANGED not_gen_vars
    /\ IF IsErr(gret)
       THEN /\ GReturn(gret)
            /\ emitted' = <<>>
            /\ UNCHANGED <<label_decorator, cur_stmt, nstmts, allocs>>
       ELSE \/ /\ GReturn(Ok(<<>>))
               /\ emitted' = << Asm_comment("}") >>
               /\ UNCHANGED <<label_decorator, cur_stmt, nstmts, allocs>>
            \/ /\ nstmts < MaxStmts
               /\ nstmts' = nstmts + 1
               /\ \/ \E s \in SimpleStmts :
                       LET r == Asm_gen_stmt(s, Chain(gstack))
                       IN /\ cur_stmt' = s
                          /\ emitted' = r.text
                          /\ IF IsErr(r.res) THEN GReturn(r.res)
                             ELSE /\ gstack' = <<[GTop EXCEPT !.new_env = r.env]>>
                                                 \o Tail(gstack)
                                  /\ gret' = r.res
                          /\ allocs' = IF IsOk(r.res) /\ s[1] \in {"Declare", "Initialize"}
                                       THEN Append(allocs, Binding(r.env, s[2][2]).rbp_offset)
                                       ELSE allocs
                          /\ UNCHANGED <<label_decorator>>
                  \/ /\ Depth < MaxDepth
                     /\ cur_stmt' = <<"Block">>
                     /\ emitted' = << Asm_comment("{") >>
                     /\ gstack' = << gen_block_frame(Env_with_tail(GTop.new_env)) >>
                                    \o gstack
                     /\ gret' = None
                     /\ UNCHANGED <<label_decorator, allocs>>
                  \/ /\ Depth < MaxDepth
                     /\ \E s \in IfStmts(ElseKinds) :
                          /\ cur_stmt' = s
                          /\ GenIf(s, gstack, <<>>)
                     /\ UNCHANGED allocs

\* Asm::gen_stmt for Stmt::If, after its then-block and after its else part.
Asm_gen_stmt_if ==
    /\ gstack # <<>> /\ GTop.fn = "gen_stmt"
    /\ UNCHANGED not_gen_vars
    /\ UNCHANGED allocs
    /\ IF IsErr(gret)
       THEN /\ GReturn(gret)
            /\ emitted' = <<>>
            /\ UNCHANGED <<label_decorator, cur_stmt, nstmts>>
       ELSE \/ /\ GTop.pc = "then" /\ GTop.stmt[3] = "none"
               /\ emitted' = << Asm_label(GTop.label1) >>
               /\ GReturn(Ok(<<>>))
               /\ UNCHANGED <<label_decorator, cur_stmt, nstmts>>
            \/ /\ GTop.pc = "then" /\ GTop.stmt[3] = "block"
               /\ emitted' = << Asm_stmt1("jmp L", GTop.label2), Asm_label(GTop.label1),
                                Asm_comment("else {"), Asm_comment("{") >>
               /\ gstack' = << gen_block_frame(
                                  Env_with_tail(Chain(Tail(gstack))[1])),
                               [GTop EXCEPT !.pc = "else"] >> \o Tail(gstack)
               /\ gret' = None
               /\ UNCHANGED <<label_decorator, cur_stmt, nstmts>>
            \/ /\ GTop.pc = "then" /\ GTop.stmt[3] = "if"
               /\ nstmts' = nstmts + 1
               /\ \E s \in IfStmts(IF nstmts < MaxStmts THEN ElseKinds
                                   ELSE ElseKinds \ {"if"}) :
                    /\ cur_stmt' = s
                    /\ GenIf(s, <<[GTop EXCEPT !.pc = "else"]>> \o Tail(gstack),
                             << Asm_stmt1("jmp L", GTop.label2), Asm_label(GTop.label1),
                                Asm_comment("else if {") >>)
            \/ /\ GTop.pc = "else"
               /\ emitted' = << Asm_comment("}"), Asm_label(GTop.label2) >>
               /\ GReturn(Ok(<<>>))
               /\ UNCHANGED <<label_decorator, cur_stmt, nstmts>>

GenNext ==
    \/ Asm_gen
    \/ Asm_gen_block
    \/ Asm_gen_stmt_if

----------------------------------------------------------------------------
(* The processor running the emitted text                                  *)
(* (the instructions are those written by Asm in src/codegen/codegen.rs)   *)

\* Registers and stack slots are modelled WordBits wide.
WordBits == 12
Word == 2 ^ WordBits
Wrap(n) == n % Word
Signed(v) == IF v >= Word \div 2 THEN v - Word ELSE v
\* The value NASM gives the literal of `mov rax, <lexeme>`.
IntValue(lexeme) ==
    CASE lexeme = "0" -> 0
      [] lexeme = "1" -> 1
      [] lexeme = "2" -> 2

\* The mark of a stack slot nothing has written yet (no value of a word),
\* and what reading such a slot may give.
Undef == 0 - 1
Garbage == {0, 1}

\* Stack slot i is the quadword at [rbp - 8 * i]; depth is (rbp - rsp) / 8.
Slot(mem, i) == IF i \in 1..Len(mem) THEN mem[i] ELSE Undef
SetSlot(mem, i, v) ==
    [k \in 1..(IF i > Len(mem) THEN i ELSE Len(mem)) |->
        IF k = i THEN v ELSE Slot(mem, k)]
Read(mem, i) == IF Slot(mem, i) = Undef THEN Garbage ELSE {Slot(mem, i)}

\* No processor running.
Cpu_off == [status |-> "off"]
\* The processor at `mov rbp, rsp`-relative depth `depth`, about to run line rip.
Cpu_at(rip, depth, mem) ==
    [rip |-> rip, depth |-> depth, mem |-> mem, rax |-> 0, rbx |-> 0,
     rcx |-> 0, rdx |-> 0, zf |-> FALSE, lt |-> FALSE, status |-> "running"]

Advance(c) == [c EXCEPT !.rip = c.rip + 1]
Cpu_push(c, v) ==
    [Advance(c) EXCEPT !.depth = c.depth + 1, !.mem = SetSlot(c.mem, c.depth + 1, v)]
\* pop into a register: the value read and the processor afterwards; a pop
\* at the frame base takes a quadword the frame does not own.
Cpu_pop(c) ==
    IF c.depth = 0 THEN { [v |-> 0, c |-> [c EXCEPT !.status = "underflow"]] }
    ELSE { [v |-> v, c |-> [Advance(c) EXCEPT !.depth = c.depth - 1]] :
             v \in Read(c.mem, c.depth) }
Flags(c, zf, lt) == [c EXCEPT !.zf = zf, !.lt = lt]
\* The line number of a label, 0 when the text does not define it.
LabelLine(text, l) ==
    IF \E i \in 1..Len(text) : text[i] = Asm_label(l)
    THEN CHOOSE i \in 1..Len(text) :
            /\ text[i] = Asm_label(l)
            /\ \A j \in 1..(i - 1) : text[j] # Asm_label(l)
    ELSE 0
Jump(c, text, l) ==
    IF LabelLine(text, l) = 0 THEN [c EXCEPT !.status = "fault"]
    ELSE [c EXCEPT !.rip = LabelLine(text, l)]
\* setcc al: the low byte of rax becomes 0 or 1.
SetAl(c, b) == [Advance(c) EXCEPT !.rax = (c.rax \div 256) * 256 + (IF b THEN 1 ELSE 0)]

\* One line of the text: labels, comments and blank lines do nothing.
Cpu_execute(c, text) ==
    LET line == text[c.rip]
        op == line[2]
    IN IF line[1] # "stmt" \/ op = "" THEN { Advance(c) }
       ELSE CASE op = "mov rbp, rsp" ->
                   { [Advance(c) EXCEPT !.depth = 0, !.mem = <<>>] }
              [] op = "push qword [rbp-N]" ->
                   { Cpu_push(c, v) : v \in Read(c.mem, line[3] \div 8) }
              [] op = "mov rax, N" ->
                   { [Advance(c) EXCEPT !.rax = Wrap(IntValue(line[3]))] }
              [] op = "push rax" -> { Cpu_push(c, c.rax) }
              [] op = "pop rax" ->
                   { [p.c EXCEPT !.rax = IF p.c.status = "running" THEN p.v ELSE @] :
                       p \in Cpu_pop(c) }
              [] op = "pop rbx" ->
                   { [p.c EXCEPT !.rbx = IF p.c.status = "running" THEN p.v ELSE @] :
                       p \in Cpu_pop(c) }
              [] op = "neg rax" ->
                   { Flags([Advance(c) EXCEPT !.rax = Wrap(0 - c.rax)],
                           c.rax = 0, Signed(Wrap(0 - c.rax)) < 0) }
              [] op = "add rax, rbx" ->
                   { Flags([Advance(c) EXCEPT !.rax = Wrap(c.rax + c.rbx)],
                           Wrap(c.rax + c.rbx) = 0, Signed(Wrap(c.rax + c.rbx)) < 0) }
              [] op = "sub rax, rbx" ->
                   { Flags([Advance(c) EXCEPT !.rax = Wrap(c.rax - c.rbx)],
                           c.rax = c.rbx, Signed(c.rax) < Signed(c.rbx)) }
              [] op = "mul rbx" ->
                   { [Advance(c) EXCEPT !.rax = Wrap(c.rax * c.rbx),
                                        !.rdx = (c.rax * c.rbx) \div Word] }
              [] op = "xor rdx, rdx" ->
                   { Flags([Advance(c) EXCEPT !.rdx = 0], TRUE, FALSE) }
              [] op = "div rbx" ->
                   IF c.rbx = 0 \/ c.rdx >= c.rbx
                   THEN { [c EXCEPT !.status = "fault"] }
                   ELSE { [Advance(c) EXCEPT
                             !.rax = (c.rdx * Word + c.rax) \div c.rbx,
                             !.rdx = (c.rdx * Word + c.rax) % c.rbx] }
              [] op = "cmp rax, rbx" ->
                   { Flags(Advance(c), c.rax = c.rbx, Signed(c.rax) < Signed(c.rbx)) }
              [] op = "sete al" -> { SetAl(c, c.zf) }
              [] op = "setne al" -> { SetAl(c, ~c.zf) }
              [] op = "setl al" -> { SetAl(c, c.lt) }
              [] op = "setle al" -> { SetAl(c, c.lt \/ c.zf) }
              [] op = "setg al" -> { SetAl(c, ~c.lt /\ ~c.zf) }
              [] op = "setge al" -> { SetAl(c, ~c.lt) }
              [] op = "and rax, 255" ->
                   { Flags([Advance(c) EXCEPT !.rax = c.rax % 256],
                           c.rax % 256 = 0, FALSE) }
              [] op = "test rax, rax" ->
                   { Flags(Advance(c), c.rax = 0, Signed(c.rax) < 0) }
              [] op = "jz L" ->
                   { IF c.zf THEN Jump(c, text, line[3]) ELSE Advance(c) }
              [] op = "jmp L" -> { Jump(c, text, line[3]) }
              [] op = "sub rsp, N" ->
                   { [Advance(c) EXCEPT !.depth = c.depth + line[3] \div 8] }
              [] op = "mov qword [rbp-N], rax" ->
                   { [Advance(c) EXCEPT !.mem = SetSlot(c.mem, line[3] \div 8, c.rax)] }
              [] op = "mov rcx, rax" -> { [Advance(c) EXCEPT !.rcx = c.rax] }
              [] op = "xor rcx, rcx" ->
                   { Flags([Advance(c) EXCEPT !.rcx = 0], TRUE, FALSE) }
              [] op = "call ExitProcess" -> { [c EXCEPT !.status = "exited"] }

\* The text has lines left and the processor has not stopped.
Cpu_running == cpu.status = "running" /\ cpu.rip <= Len(asm_text)

\* The processor executes the line at rip.
Cpu_step ==
    /\ Cpu_running
    /\ cpu' \in Cpu_execute(cpu, asm_text)
    /\ trace' = Append(trace, [rip |-> cpu.rip, rax |-> cpu.rax])
    /\ UNCHANGED <<run_input, asm_text, texts>>
    /\ UNCHANGED <<parser_vars, gen_vars, main_vars, original>>

\* The expressions whose code is run: every tree of at most MaxExprOps
\* operators over one variable and one literal.
MaxExprOps == 2
BinaryKinds ==
    {"Add", "Sub", "Mul", "Div", "Equal", "NotEqual", "Less", "LessEqual",
     "Greater", "GreaterEqual"}
RECURSIVE TermsWith(_)
RECURSIVE RExpsWith(_)
TermsWith(n) ==
    IF n = 0 THEN { <<"LExp", GenIdent("x")>>, <<"IntLit", "1", 0>> }
    ELSE { <<"Neg", t>> : t \in TermsWith(n - 1) }
         \cup { <<"Bracketed", r>> : r \in RExpsWith(n - 1) }
RExpsWith(n) ==
    { <<"Term", t>> : t \in TermsWith(n) }
    \cup UNION { { <<k, l, r>> : k \in BinaryKinds, l \in RExpsWith(i),
                                 r \in RExpsWith(n - 1 - i) } : i \in 0..(n - 1) }
RunExprs == UNION { RExpsWith(n) : n \in 0..MaxExprOps }

\* The scope the expressions are compiled in: `x` initialized, at offset 8.
ExprEnv == Env_initialize(Env_new, GenIdent("x"))
\* The stack depth at which their code is entered: the slot of x.
ExprEntryDepth == ExprEnv.current_rbp_offset \div SlotBytes

\* The expression statements whose code is run.
RunStmts == { <<"RExp", e>> : e \in RunExprs }

\* One operator applied to variables: `x op y` for every binary operator,
\* and `-x`, compiled in a scope with x at offset 8 and y at offset 16 and
\* run with every pair of operand values out of OperandValues.
OperatorExprs ==
    { <<k, GenVar("x"), GenVar("y")>> : k \in BinaryKinds }
    \cup { <<"Term", <<"Neg", <<"LExp", GenIdent("x")>> >> >> }
OperandEnv == Env_initialize(Env_initialize(Env_new, GenIdent("x")), GenIdent("y"))
OperandValues ==
    {0, 1, 2, 3, 255, 256, Word \div 2 - 1, Word \div 2, Word - 2, Word - 1}
OperatorInit ==
    /\ run_input \in OperatorExprs
    /\ asm_text = <<>>
    /\ cpu = Cpu_off
    /\ trace = <<>>
    /\ texts = <<>>
\* Asm::rexp on the expression; the processor then stands at the first line
\* of its code with x and y holding any two operand values.
Run_operator ==
    /\ cpu = Cpu_off /\ run_input \in OperatorExprs
    /\ asm_text' = Asm_rexp(run_input, <<OperandEnv>>).text
    /\ \E a \in OperandValues, b \in OperandValues :
          cpu' = Cpu_at(1, OperandEnv.current_rbp_offset \div SlotBytes, <<a, b>>)
    /\ UNCHANGED <<run_input, trace, texts>>
    /\ UNCHANGED <<parser_vars, gen_vars, main_vars, original>>

\* An expression waiting to be compiled by Asm::rexp, or an expression
\* statement waiting to be compiled by Asm::gen_stmt.
ExprInit ==
    /\ run_input \in RunExprs \cup RunStmts
    /\ asm_text = <<>>
    /\ cpu = Cpu_off
    /\ trace = <<>>
    /\ texts = <<>>

\* Asm::rexp on the expression; the processor then stands at the first line
\* of its code with x holding either value.
Run_rexp ==
    /\ cpu = Cpu_off /\ run_input \in RunExprs
    /\ asm_text' = Asm_rexp(run_input, <<ExprEnv>>).text
    /\ \E v \in Garbage : cpu' = Cpu_at(1, ExprEntryDepth, <<v>>)
    /\ UNCHANGED <<run_input, trace, texts>>
    /\ UNCHANGED <<parser_vars, gen_vars, main_vars, original>>

\* Asm::gen_stmt on the expression statement, run the same way.
Run_gen_stmt ==
    /\ cpu = Cpu_off /\ run_input \in RunStmts
    /\ asm_text' = Asm_gen_stmt(run_input, <<ExprEnv>>).text
    /\ \E v \in Garbage : cpu' = Cpu_at(1, ExprEntryDepth, <<v>>)
    /\ UNCHANGED <<run_input, trace, texts>>
    /\ UNCHANGED <<parser_vars, gen_vars, main_vars, original>>

\* The programs compiled whole and run: `let x = 0` or `let x = 1`, then
\* statements with `if`s nested at most MaxIfDepth deep, whose blocks hold
\* at most MaxBlockLen statements.
MaxIfDepth == 2
MaxBlockLen == 1
MaxCompilations == 2
RunConds == { GenLit("0"), GenVar("x") }
RunSimpleStmts == { <<"Assign", GenIdent("x"), GenLit("2")>> }
SeqsUpTo(S, n) == UNION { [1..k -> S] : k \in 0..n }
RECURSIVE IfsOfDepth(_)
RECURSIVE StmtsOfDepth(_)
IfsOfDepth(d) ==
    IF d = 0 THEN {}
    ELSE { <<"If", c, b, e>> :
             c \in RunConds,
             b \in SeqsUpTo(StmtsOfDepth(d - 1), MaxBlockLen),
             e \in ({ <<>> }
                    \cup { << <<"Block", b2>> >> :
                             b2 \in SeqsUpTo(StmtsOfDepth(d - 1), MaxBlockLen) })
                    \cup { <<i>> : i \in IfsOfDepth(d - 1) } }
StmtsOfDepth(d) ==
    (RunSimpleStmts \cup IfsOfDepth(d))
    \cup (IF d = 0 THEN {}
          ELSE { <<"Block", b>> : b \in SeqsUpTo(StmtsOfDepth(d - 1), MaxBlockLen) })
RunPrograms ==
    { << <<"Initialize", GenIdent("x"), GenLit(v)>> >> \o body :
        v \in {"0", "1"},
        body \in [1..1 -> StmtsOfDepth(MaxIfDepth)]
                 \cup [1..2 -> StmtsOfDepth(MaxIfDepth - 1)] }

\* The programs with `exit`: `let x = 0`, `1` or `2`, then `exit e` alone,
\* after an assignment, after or inside an `if`, or twice, for every e of at
\* most one operator that does not divide.
ExitExprs == { e \in RExpsWith(0) \cup RExpsWith(1) : e[1] # "Div" }
ExitBodies ==
    { <<>> }
    \cup { << <<"Exit", e>> >> : e \in ExitExprs }
    \cup { << <<"Exit", e>>, <<"Exit", GenLit("2")>> >> : e \in ExitExprs }
    \cup { << <<"Assign", GenIdent("x"), GenLit("2")>>, <<"Exit", e>> >> : e \in ExitExprs }
    \cup { << <<"If", c, << <<"Exit", e>> >>, el>> >> :
              c \in RunConds, e \in ExitExprs,
              el \in { <<>>, << <<"Block", << <<"Exit", GenLit("2")>> >> >> >> } }
    \cup { << <<"If", c, << <<"Assign", GenIdent("x"), GenLit("2")>> >>, <<>> >>,
              <<"Exit", e>> >> : c \in RunConds, e \in ExitExprs }
ExitPrograms ==
    { << <<"Initialize", GenIdent("x"), GenLit(v)>> >> \o body :
        v \in {"0", "1", "2"}, body \in ExitBodies }
ExitInit ==
    /\ run_input \in ExitPrograms
    /\ asm_text = <<>>
    /\ cpu = Cpu_off
    /\ trace = <<>>
    /\ texts = <<>>

\* The programs that bind inside blocks: `let x = 0` or `let x = 1`, then
\* a block or an `if` (with or without `else`) whose blocks hold at most
\* MaxFrameBlockLen statements that declare, initialize, read or assign,
\* alone or with one such statement before or after it.
MaxFrameBlockLen == 2
FrameSimpleStmts ==
    { <<"Declare", GenIdent("y")>>,
      <<"Initialize", GenIdent("y"), GenVar("x")>>,
      <<"RExp", GenVar("x")>>,
      <<"RExp", GenVar("y")>>,
      <<"Assign", GenIdent("y"), GenLit("2")>> }
FrameBlocks == SeqsUpTo(FrameSimpleStmts, MaxFrameBlockLen)
FrameCompoundStmts ==
    { <<"Block", b>> : b \in FrameBlocks }
    \cup { <<"If", c, b, e>> :
              c \in RunConds, b \in FrameBlocks,
              e \in { <<>> } \cup { << <<"Block", b2>> >> :
                                        b2 \in SeqsUpTo(FrameSimpleStmts, 1) } }
FramePrograms ==
    { << <<"Initialize", GenIdent("x"), GenLit(v)>> >> \o body :
        v \in {"0", "1"},
        body \in { <<c>> : c \in FrameCompoundStmts }
                 \cup { <<c, t>> : c \in FrameCompoundStmts, t \in FrameSimpleStmts }
                 \cup { <<t, c>> : c \in FrameCompoundStmts, t \in FrameSimpleStmts } }
FrameInit ==
    /\ run_input \in FramePrograms
    /\ asm_text = <<>>
    /\ cpu = Cpu_off
    /\ trace = <<>>
    /\ texts = <<>>

\* A parsed program waiting for main to compile it.
RunInit ==
    /\ run_input \in RunPrograms
    /\ asm_text = <<>>
    /\ cpu = Cpu_off
    /\ trace = <<>>
    /\ texts = <<>>

\* main from Asm::default on: Asm::gen on the program, and the executable
\* made of the text started at _start.
Run_gen ==
    /\ cpu.status # "running" /\ Len(texts) < MaxCompilations
    /\ \E r \in { Asm_gen_whole(Asm_default, run_input) } :
          /\ IsOk(r.res)
          /\ asm_text' = r.self.text
          /\ label_decorator' = r.self.label_decorator
          /\ texts' = Append(texts, r.self.text)
    /\ cpu' = Cpu_at(1, 0, <<>>)
    /\ trace' = <<>>
    /\ UNCHANGED run_input
    /\ UNCHANGED <<parser_vars, gstack, gret, emitted, cur_stmt, nstmts, allocs>>
    /\ UNCHANGED <<main_vars, original>>

----------------------------------------------------------------------------
(* Display of the AST (src/parser.rs) and parsing its text again           *)

\* The rule Display for Program writes after every statement.
RuleLength == 51
Rule == [i \in 1..RuleLength |-> "-"]

\* The operator each binary RExp is written with.
OperatorLexeme(kind) ==
    CASE kind = "Add" -> "+"
      [] kind = "Sub" -> "-"
      [] kind = "Mul" -> "*"
      [] kind = "Div" -> "/"
      [] kind = "Equal" -> "=="
      [] kind = "NotEqual" -> "!="
      [] kind = "Less" -> "<"
      [] kind = "LessEqual" -> "<="
      [] kind = "Greater" -> ">"
      [] kind = "GreaterEqual" -> ">="

\* Display for Term, RExp, Stmt and Program: the text written, as the
\* lexemes it is made of (the blanks between them left out).
RECURSIVE Display_Term(_)
RECURSIVE Display_RExp(_)
RECURSIVE Display_Stmt(_)
RECURSIVE Display_lines(_)
Display_Term(term) ==
    CASE term[1] = "LExp" -> << term[2][2] >>
      [] term[1] = "IntLit" -> << term[2] >>
      [] term[1] = "Neg" -> <<"-">> \o Display_Term(term[2])
      [] term[1] = "Bracketed" -> (<<"(">> \o Display_RExp(term[2])) \o <<")">>
Display_RExp(rexp) ==
    IF rexp[1] = "Term" THEN Display_Term(rexp[2])
    ELSE (((<<"(">> \o Display_RExp(rexp[2])) \o << OperatorLexeme(rexp[1]) >>)
          \o Display_RExp(rexp[3])) \o <<")">>
\* writeln!(f, "{}", stmt) for every statement of a block.
Display_lines(stmts) ==
    IF stmts = <<>> THEN <<>>
    ELSE (Display_Stmt(Head(stmts)) \o <<NL>>) \o Display_lines(Tail(stmts))
Display_Stmt(stmt) ==
    CASE stmt[1] = "Declare" -> <<"Declare", "(", stmt[2][2], ")">>
      [] stmt[1] = "Assign" ->
           (<<"Assign", "(", stmt[2][2], ",">> \o Display_RExp(stmt[3])) \o <<")">>
      [] stmt[1] = "Initialize" ->
           (<<"Initialize", "(", stmt[2][2], ",">> \o Display_RExp(stmt[3])) \o <<")">>
      [] stmt[1] = "RExp" -> (<<"RExp", "(">> \o Display_RExp(stmt[2])) \o <<")">>
      [] stmt[1] = "Exit" -> (<<"Exit", "(">> \o Display_RExp(stmt[2])) \o <<")">>
      [] stmt[1] = "Block" -> (<<"{", NL>> \o Display_lines(stmt[2])) \o <<"}", NL>>
      [] stmt[1] = "If" ->
           LET head == (((<<"if">> \o Display_RExp(stmt[2])) \o <<"{", NL>>)
                        \o Display_lines(stmt[3])) \o <<"}">>
           IN IF stmt[4] = <<>> THEN head \o <<NL>>
              ELSE IF stmt[4][1][1] = "Block"
              THEN ((head \o <<"else", "{", NL>>) \o Display_lines(stmt[4][1][2]))
                   \o <<"}">>
              ELSE (head \o <<"else">>) \o Display_Stmt(stmt[4][1])

RECURSIVE Display_stmts(_)
Display_stmts(stmts) ==
    IF stmts = <<>> THEN <<>>
    ELSE ((Display_Stmt(Head(stmts)) \o <<NL>>) \o (Rule \o <<NL>>))
         \o Display_stmts(Tail(stmts))
Display_Program(stmts) ==
    (<<"Program", "{", NL>> \o Display_stmts(stmts)) \o <<"}">>

\* The AST without its source locations.
RECURSIVE StripTerm(_)
RECURSIVE StripRExp(_)
RECURSIVE StripStmt(_)
RECURSIVE StripStmts(_)
StripTerm(term) ==
    CASE term[1] = "LExp" -> <<"LExp", <<"Ident", term[2][2]>> >>
      [] term[1] = "IntLit" -> <<"IntLit", term[2]>>
      [] term[1] = "Neg" -> <<"Neg", StripTerm(term[2])>>
      [] term[1] = "Bracketed" -> <<"Bracketed", StripRExp(term[2])>>
StripRExp(rexp) ==
    IF rexp[1] = "Term" THEN <<"Term", StripTerm(rexp[2])>>
    ELSE <<rexp[1], StripRExp(rexp[2]), StripRExp(rexp[3])>>
StripStmts(stmts) == [i \in DOMAIN stmts |-> StripStmt(stmts[i])]
StripStmt(stmt) ==
    CASE stmt[1] = "Declare" -> <<"Declare", <<"Ident", stmt[2][2]>> >>
      [] stmt[1] \in {"Assign", "Initialize"} ->
           <<stmt[1], <<"Ident", stmt[2][2]>>, StripRExp(stmt[3])>>
      [] stmt[1] \in {"RExp", "Exit"} -> <<stmt[1], StripRExp(stmt[2])>>
      [] stmt[1] = "Block" -> <<"Block", StripStmts(stmt[2])>>
      [] stmt[1] = "If" ->
           <<"If", StripRExp(stmt[2]), StripStmts(stmt[3]), StripStmts(stmt[4])>>

\* The text Display wrote for the parsed Program is handed to a new Parser.
Reparse ==
    /\ Finished /\ IsOk(ret) /\ original = None
    /\ original' = <<"Some", program>>
    /\ lexer' = Lexer_from(Display_Program(program))
    /\ rexp_nesting_level' = 0
    /\ program' = <<>>
    /\ stack' = << Frame("parse_program", "skip_newlines") >>
    /\ ret' = None
    /\ UNCHANGED <<gen_vars, run_vars, main_vars>>

----------------------------------------------------------------------------
(* main (src/main.rs)                                                      *)

\* main about to call parse_program: nothing written, not exited.
MainInit ==
    /\ main_pc = "parse"
    /\ exit_status = <<>>
    /\ outfile = <<>>
    /\ original = None

\* A main that goes on to Asm::compile whatever Asm::gen returned.
Main_after_gen_unchecked(res) == "compile"

\* The match on the result of asm.gen: exit(1) on Err, go on otherwise.
Main_after_gen(res) == IF IsErr(res) THEN "done" ELSE "compile"

\* The match on the result of parse_program: exit(1) on Err.
Main_after_parse ==
    /\ main_pc = "parse" /\ Finished
    /\ IF IsErr(ret)
       THEN main_pc' = "done" /\ exit_status' = <<1>>
       ELSE main_pc' = "gen" /\ UNCHANGED exit_status
    /\ UNCHANGED <<outfile, parser_vars, gen_vars, run_vars, original>>

\* Asm::default and asm.gen on the parsed program, and the match on its
\* result.
Main_gen ==
    /\ main_pc = "gen"
    /\ \E r \in { Asm_gen_whole(Asm_default, program) } :
          /\ asm_text' = r.self.text
          /\ label_decorator' = r.self.label_decorator
          /\ gret' = r.res
          /\ main_pc' = Main_after_gen(r.res)
    /\ exit_status' = IF main_pc' = "done" THEN <<1>> ELSE exit_status
    /\ UNCHANGED <<outfile, parser_vars, run_input, cpu, trace, texts, original>>
    /\ UNCHANGED <<gstack, emitted, cur_stmt, nstmts, allocs>>

\* asm.compile(path)?: write_to_file, nasm, gcc.  File::create may fail
\* (nothing written); a write or the start of nasm or gcc may fail after
\* the file was created; main returns the io::Result (status 1 on Err).
Main_compile ==
    /\ main_pc = "compile"
    /\ main_pc' = "done"
    /\ \/ outfile' = <<>> /\ exit_status' = <<1>>
       \/ outfile' = <<"asm", <<>> >> /\ exit_status' = <<1>>
       \/ outfile' = <<"asm", asm_text>> /\ exit_status' \in { <<0>>, <<1>> }
    /\ UNCHANGED <<parser_vars, gen_vars, run_vars, original>>

----------------------------------------------------------------------------
(* Specifications                                                          *)

vars == <<lexer, rexp_nesting_level, program, stack, ret,
          gstack, gret, label_decorator, emitted, cur_stmt, nstmts, allocs,
          run_input, asm_text, cpu, trace, texts,
          main_pc, exit_status, outfile, original>>

\* The code generator at rest, while the parser runs.
GenIdle ==
    /\ gstack = <<>>
    /\ gret = None
    /\ label_decorator = <<>>
    /\ emitted = <<>>
    /\ cur_stmt = None
    /\ nstmts = 0
    /\ allocs = <<>>

\* The parser at rest, while the code generator runs.
ParserIdle ==
    /\ lexer = Lexer_new
    /\ rexp_nesting_level = 0
    /\ program = <<>>
    /\ stack = <<>>
    /\ ret = None

\* Nothing compiled to run.
RunIdle ==
    /\ run_input = None
    /\ asm_text = <<>>
    /\ cpu = Cpu_off
    /\ trace = <<>>
    /\ texts = <<>>

\* Parser::parse_program on any source text of at most MaxSrc lexemes.
Init == ParserInit /\ GenIdle /\ RunIdle /\ MainInit
Next == ParserNext
Spec == Init /\ [][Next]_vars
\* parse_program is one sequential call: while it has not returned, its
\* next step is taken.
SpecTerminates == Init /\ [][Next]_vars /\ WF_vars(Next)

\* Asm::rexp on any expression of at most MaxExprOps operators, and a run
\* of the code it emits.
InitExpr == ParserIdle /\ GenIdle /\ ExprInit /\ MainInit
NextExpr == Run_rexp \/ Run_gen_stmt \/ Cpu_step
SpecExpr == InitExpr /\ [][NextExpr]_vars

\* Asm::gen on programs that bind names inside blocks and arms, and a run
\* of the executable.
InitFrame == ParserIdle /\ GenIdle /\ FrameInit /\ MainInit
NextFrame == Run_gen \/ Cpu_step
SpecFrame == InitFrame /\ [][NextFrame]_vars

\* Asm::rexp on one operator over two variables, and a run of its code on
\* every pair of operand values.
InitOperator == ParserIdle /\ GenIdle /\ OperatorInit /\ MainInit
NextOperator == Run_operator \/ Cpu_step
SpecOperator == InitOperator /\ [][NextOperator]_vars

\* main from parse_program to its exit.
NextMain == ParserNext \/ Main_after_parse \/ Main_gen \/ Main_compile
SpecMain == Init /\ [][NextMain]_vars

\* The lexer alone, driven by calls of consume and rewind.
InitLexer == LexInit /\ GenIdle /\ RunIdle /\ MainInit
NextLexer == Lex_consume_call \/ Lex_rewind_call
SpecLexer == InitLexer /\ [][NextLexer]_vars

\* A parse, and the parse of what Display writes for its Program.
NextRoundTrip == ParserNext \/ Reparse
SpecRoundTrip == Init /\ [][NextRoundTrip]_vars

\* Whole programs compiled by Asm::gen and run.
InitRun == ParserIdle /\ GenIdle /\ RunInit /\ MainInit
NextRun == Run_gen \/ Cpu_step
SpecRun == InitRun /\ [][NextRun]_vars

\* Asm::gen on programs that hold `exit` statements, and a run of the
\* executable.
InitExit == ParserIdle /\ GenIdle /\ ExitInit /\ MainInit
NextExit == Run_gen \/ Cpu_step
SpecExit == InitExit /\ [][NextExit]_vars

\* Parser::parse_program on every text of at most MaxParenLen lexemes made
\* of parentheses, an identifier and newlines.
MaxParenLen == 7
ParenLexemes == {"(", ")", "x", NL}
ParenTexts == UNION { [1..n -> ParenLexemes] : n \in 0..MaxParenLen }
ParenInit ==
    /\ lexer \in { Lexer_from(text) : text \in ParenTexts }
    /\ rexp_nesting_level = 0
    /\ program = <<>>
    /\ stack = << Frame("parse_program", "skip_newlines") >>
    /\ ret = None
InitParens == ParenInit /\ GenIdle /\ RunIdle /\ MainInit
NextParens ==
    \/ Parser_parse_program
    \/ Parser_skip_newlines
    \/ Parser_stmt
    \/ Parser_assign_stmt_or_rexp
    \/ Parser_rexp_min_prec
    \/ Parser_term
SpecParens == InitParens /\ [][NextParens]_vars

\* Parser::parse_program on any text of at most MaxIfSrc lexemes out of
\* those an `if` statement is written with.
MaxIfSrc == 9
IfLexemes == {"if", "else", "x", "{", "}", "@", NL}
IfInit ==
    /\ lexer = Lexer_among(IfLexemes, MaxIfSrc)
    /\ rexp_nesting_level = 0
    /\ program = <<>>
    /\ stack = << Frame("parse_program", "skip_newlines") >>
    /\ ret = None
InitIf == IfInit /\ GenIdle /\ RunIdle /\ MainInit
NextIf ==
    \/ Parser_parse_program
    \/ Parser_skip_newlines
    \/ Parser_stmt
    \/ Parser_if_
    \/ Parser_block
    \/ Parser_assign_stmt_or_rexp
    \/ Parser_rexp_min_prec
    \/ Parser_term
SpecIf == InitIf /\ [][NextIf]_vars

\* Asm::gen on any program of at most MaxStmts statements.
InitGen == ParserIdle /\ GenInit /\ RunIdle /\ MainInit
NextGen == GenNext
SpecGen == InitGen /\ [][NextGen]_vars

----------------------------------------------------------------------------
(* Properties of the parser (Spec)                                      *)

\* The operators of the language by binding strength, weakest first, and
\* the node each one builds.
CompareOps == {"==", "!=", "<", "<=", ">", ">="}
AddOps == {"+", "-"}
MulOps == {"*", "/"}
BinaryOps == (CompareOps \cup AddOps) \cup MulOps
Level(op) == IF op \in CompareOps THEN 1 ELSE IF op \in AddOps THEN 2 ELSE 3
NodeKind(op) ==
    CASE op = "+" -> "Add" [] op = "-" -> "Sub" [] op = "*" -> "Mul"
      [] op = "/" -> "Div" [] op = "==" -> "Equal" [] op = "!=" -> "NotEqual"
      [] op = "<" -> "Less" [] op = "<=" -> "LessEqual" [] op = ">" -> "Greater"
      [] op = ">=" -> "GreaterEqual"
Node(op, l, r) == <<NodeKind(op), l, r>>
\* The expression a one-word operand standing at position pos is parsed to.
Leaf(lexeme, pos) ==
    IF lexeme \in IdentLexemes THEN <<"Term", <<"LExp", <<"Ident", lexeme, pos>>>>>>
    ELSE <<"Term", <<"IntLit", lexeme, pos>>>>

\* The whole text is `a op1 b op2 c` and parse_program has returned.
ParsedChain ==
    /\ Finished
    /\ lexer.src_end
    /\ Len(lexer.source) = 5
    /\ \A i \in {1, 3, 5} : lexer.source[i] \in IdentLexemes \cup IntLexemes
    /\ \A i \in {2, 4} : lexer.source[i] \in BinaryOps
\* (a op1 b) op2 c  and  a op1 (b op2 c)
NestedLeft(src) ==
    Node(src[4], Node(src[2], Leaf(src[1], 0), Leaf(src[3], 2)), Leaf(src[5], 4))
NestedRight(src) ==
    Node(src[2], Leaf(src[1], 0), Node(src[4], Leaf(src[3], 2), Leaf(src[5], 4)))

\* C1: an unparenthesised `a op1 b op2 c` whose operators differ in
\* precedence (comparison < additive < multiplicative) parses to the tree in
\* which the higher-precedence operator's node is a child of the
\* lower-precedence operator's node.
C1_PrecedenceNesting ==
    (ParsedChain /\ Level(lexer.source[2]) # Level(lexer.source[4])) =>
       /\ IsOk(ret)
       /\ program = << <<"RExp",
                         IF Level(lexer.source[2]) > Level(lexer.source[4])
                         THEN NestedLeft(lexer.source)
                         ELSE NestedRight(lexer.source)>> >>

\* `1 + 1 * x` has been parsed to Add(1, Mul(1, x)).
C1_Witness ==
    /\ Finished
    /\ lexer.source = <<"1", "+", "1", "*", "x">>
    /\ program = << <<"RExp",
                      <<"Add", <<"Term", <<"IntLit", "1", 0>>>>,
                               <<"Mul", <<"Term", <<"IntLit", "1", 2>>>>,
                                        <<"Term", <<"LExp", <<"Ident", "x", 4>>>>>> >> >> >> >>

\* C2: a chain `a op b op' c` of two operators of equal precedence nests to
\* the left when they are additive or multiplicative and to the right when
\* they are comparison operators.
C2_Associativity ==
    (ParsedChain /\ Level(lexer.source[2]) = Level(lexer.source[4])) =>
       /\ IsOk(ret)
       /\ program = << <<"RExp",
                         IF lexer.source[2] \in CompareOps
                         THEN NestedRight(lexer.source)
                         ELSE NestedLeft(lexer.source)>> >>

\* `1 < 1 < x` has been parsed to Less(1, Less(1, x)).
C2_Witness ==
    /\ Finished
    /\ lexer.source = <<"1", "<", "1", "<", "x">>
    /\ program = << <<"RExp",
                      <<"Less", <<"Term", <<"IntLit", "1", 0>>>>,
                                <<"Less", <<"Term", <<"IntLit", "1", 2>>>>,
                                          <<"Term", <<"LExp", <<"Ident", "x", 4>>>>>> >> >> >> >>

\* C3: parse_program returns Ok only when the whole token stream up to
\* EndOfFile has been consumed: on its successful return the cursor stands
\* on EndOfFile.
C3_OkOnlyAtEndOfFile ==
    (Finished /\ IsOk(ret)) => peek(lexer).tokentype[1] = "EndOfFile"

\* C4: parse_program never returns NotFound, and no statement parser that
\* stmt has dispatched to hands NotFound back: it has been converted by
\* handle_not_found on the way.
C4_NotFoundNeverLeaks ==
    /\ Finished => ~IsNotFound(ret)
    /\ Running("stmt", "ret") => ~IsNotFound(ret)

\* On `let x = )` the NotFound of term has become ExpectedExpression, which
\* parse_program has returned.
C4_Witness ==
    /\ Finished
    /\ lexer.source = <<"let", "x", "=", ")">>
    /\ IsErr(ret) /\ ret[2][1] = "ExpectedExpression"

\* A bare identifier term.
IsBareIdent(rexp) == rexp[1] = "Term" /\ rexp[2][1] = "LExp"
\* assign_stmt_or_rexp has its expression and `=` follows it.
AssignFollows ==
    Running("assign_stmt_or_rexp", "exp") /\ IsOk(ret)
      /\ peek(lexer).tokentype[1] = "Assign"
\* What assign_stmt_or_rexp does on the `=`: with a bare identifier it goes
\* on to the right-hand side of an Assign to that identifier, with anything
\* else it returns RExpOnLHS carrying the expression.
AssignOrRExpOnLHS ==
    IF IsBareIdent(ret[2])
    THEN /\ Len(stack') = Len(stack) + 1
         /\ stack'[2].fn = "assign_stmt_or_rexp" /\ stack'[2].pc = "rexp"
         /\ stack'[2].lexp = ret[2][2][2]
    ELSE /\ stack' = Tail(stack)
         /\ ret' = Err(<<"RExpOnLHS", ret[2]>>)
\* The Assign is built for the identifier kept, and an RExpOnLHS is handed up
\* unchanged with no further token read.
AssignBuiltAndErrorKept ==
    /\ (Running("assign_stmt_or_rexp", "rexp") /\ IsOk(ret)) =>
          /\ IsBareIdent(Top.exp)
          /\ ret' = Ok(<<"Assign", Top.exp[2][2], ret[2]>>)
    /\ (IsErr(ret) /\ ret[2][1] = "RExpOnLHS") =>
          /\ ret' = ret
          /\ lexer' = lexer
          /\ (stack # <<>> => stack' = Tail(stack))

\* C5 as stated: when `=` follows the expression, the statement is an Assign
\* iff the expression is a bare identifier, and any other expression fails
\* with RExpOnLHS carrying it, with no retry.
C5_AssignIffBareIdent ==
    [][(AssignFollows => AssignOrRExpOnLHS) /\ AssignBuiltAndErrorKept]_vars

\* C5: as above, except when the text after `=` starts no token: the `=` is
\* consumed, which scans the next token, before the left side is looked at,
\* so the IllegalToken error of that scan is what is returned.
C5_AssignIffBareIdentUnlessIllegal ==
    [][/\ AssignFollows =>
            IF /\ Len(lexer'.source) > Len(lexer.source)
               /\ TokenTypeOf(lexer'.source[Len(lexer'.source)])[1] = "Illegal"
            THEN /\ stack' = Tail(stack)
                 /\ IsErr(ret') /\ ret'[2][1] = "IllegalToken"
            ELSE AssignOrRExpOnLHS
       /\ AssignBuiltAndErrorKept]_vars

\* `( x ) =` has failed with RExpOnLHS carrying the parenthesised identifier.
C5_Witness ==
    /\ Finished
    /\ ret = Err(<<"RExpOnLHS",
                   <<"Term", <<"Bracketed",
                               <<"Term", <<"LExp", <<"Ident", "x", 1>>>>>> >> >> >>)

----------------------------------------------------------------------------
(* Properties of the code generator (SpecGen)                           *)

\* The generations of a name that a scope holds, and the latest of them.
Generations(env, lexeme) == { k \in DOMAIN env.symtable : k[1] = lexeme }
Holds(env, lexeme) == Generations(env, lexeme) # {}
Latest(env, lexeme) ==
    env.symtable[CHOOSE k \in Generations(env, lexeme) :
                    \A j \in Generations(env, lexeme) : j[2] <= k[2]]
\* A name is bound when some scope of the chain holds it; it then refers to
\* the latest generation in the innermost such scope.
Bound(chain, lexeme) == \E i \in 1..Len(chain) : Holds(chain[i], lexeme)
Referent(chain, lexeme) ==
    Latest(chain[CHOOSE i \in 1..Len(chain) :
                    /\ Holds(chain[i], lexeme)
                    /\ \A j \in 1..(i - 1) : ~Holds(chain[j], lexeme)], lexeme)
\* The i-th scope of a chain counted from the outermost.
FromBottom(chain, i) == chain[Len(chain) - i + 1]

\* The expression statement `lexeme` has just been generated: the code that
\* reads the identifier is what was appended last.
JustRead(lexeme) ==
    /\ cur_stmt = <<"RExp", GenVar(lexeme)>>
    /\ IsOk(gret)
    /\ Len(emitted) = 4
    /\ emitted[1] = Asm_comment("rexp")
\* The frame offset that code reads from.
ReadOffset == emitted[4][3]

\* A use of a name reads the binding the name refers to; where the current
\* scope shadows a name of an enclosing scope, that is the current scope's
\* own binding, at an offset no enclosing binding of the name has.
UseResolvesInnermost ==
    \A l \in GenIdentLexemes :
       JustRead(l) =>
          LET chain == Chain(gstack)
          IN /\ ReadOffset = Referent(chain, l).rbp_offset
             /\ Holds(chain[1], l) =>
                  /\ ReadOffset = Latest(chain[1], l).rbp_offset
                  /\ \A i \in 2..Len(chain) : \A k \in Generations(chain[i], l) :
                        chain[i].symtable[k].rbp_offset # ReadOffset
\* No step changes an enclosing scope, or a binding the current scope
\* already holds: offsets and initialized flags stay as they are.
BindingsUntouched ==
    LET chain == Chain(gstack)
        after == Chain(gstack')
    IN /\ \A i \in 1..(Len(chain) - 1) :
            i <= Len(after) /\ FromBottom(after, i) = FromBottom(chain, i)
       /\ (chain # <<>> /\ Len(after) >= Len(chain)) =>
            \A k \in DOMAIN chain[1].symtable :
               /\ k \in DOMAIN FromBottom(after, Len(chain)).symtable
               /\ FromBottom(after, Len(chain)).symtable[k] = chain[1].symtable[k]

\* C6: with `let x` in an outer scope and `let x = ...` in a nested block, a
\* use of x inside the block reads the block's own binding, at another
\* offset than the outer one; the outer binding keeps its offset and its
\* initialized flag; a use after the block reads the outer binding again.
C6_ShadowingAcrossScopes ==
    []UseResolvesInnermost /\ [][BindingsUntouched]_vars

\* `let x` outside, then inside a block `let x = ...` and a use of x, which
\* reads the block's binding at offset 16 while the outer one is still at 8
\* and uninitialized.
C6_Witness ==
    /\ JustRead("x")
    /\ Len(Chain(gstack)) = 2
    /\ Holds(Chain(gstack)[1], "x") /\ Holds(Chain(gstack)[2], "x")
    /\ Latest(Chain(gstack)[2], "x").rbp_offset = 8
    /\ ~Latest(Chain(gstack)[2], "x").initialized
    /\ Latest(Chain(gstack)[1], "x").initialized
    /\ ReadOffset = 16

\* The identifiers an expression reads, and those a statement looks up.
RECURSIVE TermIdents(_)
RECURSIVE RExpIdents(_)
TermIdents(term) ==
    CASE term[1] = "LExp" -> {term[2][2]}
      [] term[1] = "IntLit" -> {}
      [] term[1] = "Neg" -> TermIdents(term[2])
      [] term[1] = "Bracketed" -> RExpIdents(term[2])
RExpIdents(rexp) ==
    IF rexp[1] = "Term" THEN TermIdents(rexp[2])
    ELSE RExpIdents(rexp[2]) \cup RExpIdents(rexp[3])
LooksUp(stmt) ==
    CASE stmt[1] = "Declare" -> {}
      [] stmt[1] = "Initialize" -> RExpIdents(stmt[3])
      [] stmt[1] = "Assign" -> {stmt[2][2]} \cup RExpIdents(stmt[3])
      [] stmt[1] \in {"RExp", "Exit", "If"} -> RExpIdents(stmt[2])
\* This step hands a statement with expressions to gen_stmt.
GeneratesStmt == nstmts' = nstmts + 1 /\ cur_stmt' # <<"Block">>
IsUndeclared(res) == IsErr(res) /\ res[2][1] = "UndeclaredIdent"

\* C7: a statement that assigns to, or reads, an identifier with no binding
\* in the current scope or any enclosing one fails with UndeclaredIdent
\* naming such an identifier; when every identifier it looks up has a
\* binding somewhere in the scope chain, no UndeclaredIdent is raised.
C7_UndeclaredIffUnbound ==
    [][GeneratesStmt =>
         LET chain == Chain(gstack)
             unbound == { l \in LooksUp(cur_stmt') : ~Bound(chain, l) }
         IN IF unbound = {} THEN ~IsUndeclared(gret')
            ELSE /\ IsUndeclared(gret')
                 /\ gret'[2][2][2] \in unbound]_vars

\* `x = 1` with no `let x` before it has failed with UndeclaredIdent for x.
C7_Witness ==
    /\ cur_stmt = <<"Assign", GenIdent("x"), GenLit("1")>>
    /\ allocs = <<>>
    /\ gret = Err(<<"UndeclaredIdent", GenIdent("x")>>)

\* C8: reading an identifier fails with the uninitialized-identifier error
\* when its binding came from a Declare and has not been marked initialized
\* by an Assign since: a use that succeeds reads an initialized binding.
C8_ReadOnlyInitialized ==
    \A l \in GenIdentLexemes :
       JustRead(l) => Referent(Chain(gstack), l).initialized

\* C9: over one whole compilation no two bindings introduced by Declare or
\* Initialize ever receive the same frame offset.
C9_OffsetsNeverReused ==
    \A i \in DOMAIN allocs : \A j \in DOMAIN allocs :
       i # j => allocs[i] # allocs[j]

\* The bindings reachable through a scope chain, shadowed generations
\* included, and their frame offsets.
ChainBindings(chain) ==
    UNION { { <<i, k>> : k \in DOMAIN chain[i].symtable } : i \in 1..Len(chain) }
ChainOffsets(chain) ==
    { chain[b[1]].symtable[b[2]].rbp_offset : b \in ChainBindings(chain) }
\* The n bindings of the chain occupy the offsets 8, 16, ..., 8n, one each.
ChainOffsetsDistinct ==
    LET chain == Chain(gstack)
    IN ChainOffsets(chain) = { 8 * i : i \in 1..Cardinality(ChainBindings(chain)) }
\* A binding being introduced gets an offset above those of every binding
\* reachable when it is introduced.
IntroducedAbove ==
    allocs' # allocs =>
       \A o \in ChainOffsets(Chain(gstack)) : o < allocs'[Len(allocs')]

\* C10: at every point the bindings reachable through the current scope
\* chain have pairwise distinct frame offsets, each a positive multiple of 8,
\* increasing in order of introduction.
C10_ChainOffsets ==
    []ChainOffsetsDistinct /\ [][IntroducedAbove]_vars

\* After the top-level `let x = 1` and `let y = 1`, x is at 8 and y at 16.
C10_Witness ==
    /\ cur_stmt = <<"Initialize", GenIdent("y"), GenLit("1")>>
    /\ IsOk(gret)
    /\ Len(Chain(gstack)) = 1
    /\ DOMAIN Chain(gstack)[1].symtable = {<<"x", 1>>, <<"y", 1>>}
    /\ Chain(gstack)[1].symtable[<<"x", 1>>].rbp_offset = 8
    /\ Chain(gstack)[1].symtable[<<"x", 1>>].initialized
    /\ Chain(gstack)[1].symtable[<<"y", 1>>].rbp_offset = 16

----------------------------------------------------------------------------
(* Properties of the emitted code (SpecExpr)                            *)

\* The processor has run the text to its end.
RanToEnd == cpu.status = "running" /\ cpu.rip = Len(asm_text) + 1

\* C11: for every expression tree, running the code Asm::rexp emits never
\* takes the stack below its depth at entry, and leaves it exactly one value
\* deeper than at entry when the code has run to its end.
C11_RExpStackEffect ==
    (run_input \in RunExprs /\ cpu.status # "off") =>
       /\ cpu.status # "underflow"
       /\ cpu.depth >= ExprEntryDepth
       /\ RanToEnd => cpu.depth = ExprEntryDepth + 1

\* The code of `-x + 1` has run to its end, one value above the slot of x.
C11_Witness ==
    /\ run_input = <<"Add", <<"Term", <<"Neg", <<"LExp", GenIdent("x")>>>>>>,
                            <<"Term", <<"IntLit", "1", 0>>>>>>
    /\ RanToEnd
    /\ cpu.depth = ExprEntryDepth + 1

\* C12: when the code Asm::gen_stmt emits for an expression statement has
\* run to its end, the stack is as deep as it was before the statement.
C12_RExpStmtNetZero ==
    (run_input \in RunStmts /\ RanToEnd) => cpu.depth = ExprEntryDepth

----------------------------------------------------------------------------
(* Properties of whole programs compiled and run (SpecRun)              *)

\* Line j of the text is a branch-if-zero; it has been executed; the value
\* of rax it was executed with; the line control went to from it.
IsJz(j) == asm_text[j][1] = "stmt" /\ asm_text[j][2] = "jz L"
Executed(j) == \E p \in DOMAIN trace : trace[p].rip = j
TracePos(j) == CHOOSE p \in DOMAIN trace : trace[p].rip = j
RaxAt(j) == trace[TracePos(j)].rax
LineAfter(j) ==
    IF TracePos(j) < Len(trace) THEN trace[TracePos(j) + 1].rip ELSE cpu.rip
NoneExecuted(lines) == \A k \in lines : ~Executed(k)

\* What the claim says of the `if` whose branch-if-zero is line j, once that
\* line has been executed.
IfWithoutElseRuns(j, end) ==
    /\ end > j
    /\ RaxAt(j) # 0 => LineAfter(j) = j + 1
    /\ RaxAt(j) = 0 => LineAfter(j) = end /\ NoneExecuted((j + 1)..(end - 1))
    /\ cpu.status = "exited" => Executed(end)
IfWithElseRuns(j, else_start, else_end) ==
    /\ else_start > j /\ else_end > else_start
    /\ asm_text[else_start - 1] = Asm_stmt1("jmp L", asm_text[else_end][2])
    /\ RaxAt(j) # 0 =>
          /\ LineAfter(j) = j + 1
          /\ NoneExecuted(else_start..(else_end - 1))
          /\ Executed(else_start - 1) => LineAfter(else_start - 1) = else_end
    /\ RaxAt(j) = 0 =>
          /\ LineAfter(j) = else_start
          /\ NoneExecuted((j + 1)..(else_start - 1))
    /\ cpu.status = "exited" => Executed(else_end)
IfRunsOneArm(j) ==
    LET target == asm_text[j][3]
    IN CASE target[1] = "end_if" ->
              IfWithoutElseRuns(j, LabelLine(asm_text, target))
         [] target[1] = "else_start" ->
              IfWithElseRuns(j, LabelLine(asm_text, target),
                             LabelLine(asm_text, <<"else_end", target[2]>>))
         [] OTHER -> FALSE

\* C13: in every run, an `if` with an else part executes exactly one arm:
\* the then-block iff the condition value is non-zero (after it control
\* jumps to the else-end label), otherwise control jumps to the else-start
\* label; an `if` without else runs its then-block iff the condition is
\* non-zero; either way the run goes on at the label that ends the `if`.
C13_IfRunsOneArm ==
    \A j \in 1..Len(asm_text) : (IsJz(j) /\ Executed(j)) => IfRunsOneArm(j)

\* A run that has exited after taking the else part of one `if` and the
\* then-block of another.
C13_Witness ==
    /\ cpu.status = "exited"
    /\ \E j1, j2 \in 1..Len(asm_text) :
          /\ IsJz(j1) /\ Executed(j1) /\ RaxAt(j1) = 0
          /\ asm_text[j1][3][1] = "else_start"
          /\ Executed(LabelLine(asm_text, asm_text[j1][3]))
          /\ IsJz(j2) /\ Executed(j2) /\ RaxAt(j2) # 0
          /\ asm_text[j2][3][1] = "else_start"
          /\ Executed(j2 + 1)

\* The lines that define a label, those that define label l, the lines that
\* branch, and the labels made from one base name.
LabelLines == { i \in 1..Len(asm_text) : asm_text[i][1] = "label" }
DefinitionsOf(l) == { i \in LabelLines : asm_text[i][2] = l }
BranchLines ==
    { i \in 1..Len(asm_text) :
        asm_text[i][1] = "stmt" /\ asm_text[i][2] \in {"jz L", "jmp L"} }
LabelBases == {"end_if", "else_start", "else_end"}
LabelsOf(base) ==
    { asm_text[i][2] : i \in { k \in LabelLines : asm_text[k][2][1] = base } }
\* The calls of decorate_and_increment made for a base name during Asm::gen.
CallsFor(base) ==
    IF base \in DOMAIN label_decorator THEN label_decorator[base] ELSE 0
\* Branches to labels of one base name appear in the order of their calls.
InCallOrder(base) ==
    \A i, j \in BranchLines :
        (i < j /\ asm_text[i][2] = "jz L" /\ asm_text[j][2] = "jz L"
           /\ asm_text[i][3][1] = base /\ asm_text[j][3][1] = base)
        => asm_text[i][3][2] < asm_text[j][3][2]

\* C14: in the text of one Asm::gen call no label is defined twice, every
\* jz/jmp target is defined exactly once, and the calls of
\* decorate_and_increment for a base name returned base_0, base_1, ... in
\* order, whatever calls were made for other base names.
C14_LabelsUnique ==
    texts # <<>> =>
       /\ \A i \in LabelLines : DefinitionsOf(asm_text[i][2]) = {i}
       /\ \A i \in BranchLines : Cardinality(DefinitionsOf(asm_text[i][3])) = 1
       /\ \A base \in LabelBases :
             /\ LabelsOf(base) = { <<base, k>> : k \in 0..(CallsFor(base) - 1) }
             /\ InCallOrder(base)
             /\ decorate_and_increment(label_decorator, base).decorated
                   = <<base, CallsFor(base)>>

\* A text with two `if`s with an else part and one without.
C14_Witness ==
    /\ texts # <<>>
    /\ CallsFor("else_start") = 2
    /\ CallsFor("end_if") = 1
    /\ DefinitionsOf(<<"else_end", 1>>) # {}
    /\ DefinitionsOf(<<"end_if", 0>>) # {}

----------------------------------------------------------------------------
(* Properties of main (SpecMain)                                        *)

GenInvoked == main_pc \in {"gen", "compile"} \/ gret # None \/ asm_text # <<>>
CompileInvoked == main_pc = "compile" \/ outfile # <<>>
PassFailed == (Finished /\ IsErr(ret)) \/ IsErr(gret)

\* C16: Asm::gen is invoked only after parse_program returned Ok,
\* Asm::compile only after Asm::gen returned Ok, and once a pass has
\* returned an error no output file is ever written and the process, when
\* it has exited, has exited with status 1.
C16_PipelineOrder ==
    /\ GenInvoked => (Finished /\ IsOk(ret))
    /\ CompileInvoked => (Finished /\ IsOk(ret) /\ IsOk(gret))
    /\ PassFailed =>
          /\ ~CompileInvoked
          /\ main_pc \in {"parse", "done"}
          /\ main_pc = "done" => exit_status = <<1>>

\* A program that parses but names an undeclared identifier: main has
\* exited with status 1 after Asm::gen failed, nothing written.
C16_Witness ==
    /\ main_pc = "done"
    /\ IsOk(ret) /\ IsErr(gret)
    /\ gret[2][1] = "UndeclaredIdent"
    /\ exit_status = <<1>>
    /\ outfile = <<>>

----------------------------------------------------------------------------
(* Properties of Display (SpecRoundTrip)                                *)

\* C17: when the text Display wrote for a parsed Program has been parsed
\* again, the parse has succeeded and its Program equals the printed one
\* up to source locations.
C17_RoundTrip ==
    (original # None /\ Finished) =>
       /\ IsOk(ret)
       /\ StripStmts(program) = StripStmts(original[2])

----------------------------------------------------------------------------
(* Properties of the lexer (SpecLexer)                                  *)

\* Only rewind takes the token cursor back.
RewindStep == lexer'.token_cursor < lexer.token_cursor

\* C18: rewind at the first token changes nothing; anywhere else it takes the
\* token cursor back by one and changes nothing else, and the consume that
\* follows gives back the very lexer there was before the rewind (same
\* current token, same tokens, same place in the text) and returns Ok.
C18_RewindThenConsume ==
    /\ [](lexer.token_cursor = 0 => Lexer_rewind(lexer) = lexer)
    /\ [][RewindStep =>
            /\ lexer.token_cursor >= 1
            /\ lexer' = [lexer EXCEPT !.token_cursor = lexer.token_cursor - 1]
            /\ Lex_consume(lexer') = [lexer |-> lexer, res |-> Ok(<<>>)]]_vars

\* Two tokens were read after StartOfFile and rewind has stepped back from
\* the second: consume makes it current again from the buffer.
C18_Witness ==
    /\ lexer.token_cursor = 1
    /\ Len(lexer.tokens) = 3
    /\ lexer.tokens[3].tokentype # <<"EndOfFile">>
    /\ peek(Lex_consume(lexer).lexer) = lexer.tokens[3]
    /\ Lex_consume(lexer).lexer.ch_cursor = lexer.ch_cursor

\* The reference tokenisation of a text from position i on, newline
\* emission on: spaces give nothing, every newline a NewLine, a
\* two-character operator wins over its first character, a word led by a
\* letter or an underscore is a keyword when it is one as a whole and an
\* Ident otherwise, a run of digits is an IntLiteral; anything else (a
\* character that starts no token, digits run into letters) is not legal.
RefTwoChar(a, b) ==
    CASE a = "=" /\ b = "=" -> <<"Equal">>
      [] a = "!" /\ b = "=" -> <<"NotEqual">>
      [] a = "<" /\ b = "=" -> <<"LessEqual">>
      [] a = ">" /\ b = "=" -> <<"GreaterEqual">>
      [] OTHER -> <<>>
RefOneChar(a) ==
    CASE a = "+" -> <<"Plus">>
      [] a = "-" -> <<"Minus">>
      [] a = "*" -> <<"Asterisk">>
      [] a = "/" -> <<"ForwardSlash">>
      [] a = "=" -> <<"Assign">>
      [] a = "<" -> <<"Less">>
      [] a = ">" -> <<"Greater">>
      [] a = "{" -> <<"SCurly">>
      [] a = "}" -> <<"ECurly">>
      [] a = "(" -> <<"SBrace">>
      [] a = ")" -> <<"EBrace">>
      [] OTHER -> <<>>
RefWord(word) ==
    CASE word = <<"l", "e", "t">> -> <<"Let">>
      [] word = <<"e", "x", "i", "t">> -> <<"Exit">>
      [] word = <<"i", "f">> -> <<"If">>
      [] word = <<"e", "l", "s", "e">> -> <<"Else">>
      [] OTHER -> <<"Ident", word>>
\* The end of the longest run of characters of a class that starts at i.
RECURSIVE RunEnd(_, _, _)
RunEnd(text, i, class) ==
    IF i <= Len(text) /\ text[i] \in class THEN RunEnd(text, i + 1, class) ELSE i - 1
RECURSIVE RefTokens(_, _)
RefTokens(text, i) ==
    IF i > Len(text) THEN <<>>
    ELSE LET c == text[i]
             two == IF i < Len(text) THEN RefTwoChar(c, text[i + 1]) ELSE <<>>
             word_end == RunEnd(text, i, AsciiAlphanumeric \cup {"_"})
             digits_end == RunEnd(text, i, AsciiDigits)
         IN IF c = NL THEN << <<"NewLine">> >> \o RefTokens(text, i + 1)
            ELSE IF c \in Whitespace THEN RefTokens(text, i + 1)
            ELSE IF two # <<>> THEN <<two>> \o RefTokens(text, i + 2)
            ELSE IF RefOneChar(c) # <<>>
            THEN << RefOneChar(c) >> \o RefTokens(text, i + 1)
            ELSE IF c \in AsciiLetters \cup {"_"}
            THEN << RefWord(SubSeq(text, i, word_end)) >> \o RefTokens(text, word_end + 1)
            ELSE IF c \in AsciiDigits /\ word_end = digits_end
            THEN << <<"IntLiteral", SubSeq(text, i, digits_end)>> >>
                 \o RefTokens(text, digits_end + 1)
            ELSE << <<"NotLegal">> >>
LegalText(text) ==
    \A k \in DOMAIN RefTokens(text, 1) : RefTokens(text, 1)[k] # <<"NotLegal">>
\* What peek shows between the consumes, StartOfFile first and EndOfFile
\* from the end of the text on.
RefSeen(text) ==
    (<< <<"StartOfFile">> >> \o RefTokens(text, 1))
    \o [k \in 1..MaxEofTokens |-> <<"EndOfFile">>]
TypesSeen(lx) == [k \in DOMAIN lx.tokens |-> lx.tokens[k].tokentype]

\* C19: on a text of legal lexemes only, newline emission on, the token
\* types peek shows between the consumes are those of the reference
\* tokenisation, StartOfFile first, and no consume fails.
C19_LegalTokenisation ==
    (lexer.emit_newline /\ LegalText(lexer.source)) =>
       /\ ~IsErr(ret)
       /\ Len(TypesSeen(lexer)) <= Len(RefSeen(lexer.source))
       /\ \A k \in DOMAIN lexer.tokens : TypesSeen(lexer)[k] = RefSeen(lexer.source)[k]

\* `if==` read to its end: If, Equal (not Assign twice), EndOfFile.
C19_Witness ==
    /\ lexer.emit_newline
    /\ lexer.source = <<"i", "f", "=", "=">>
    /\ TypesSeen(lexer) = << <<"StartOfFile">>, <<"If">>, <<"Equal">>, <<"EndOfFile">> >>

\* A consume that reads the text adds a token.
ReadStep == Len(lexer'.tokens) = Len(lexer.tokens) + 1
\* Where that consume starts its token: the first character at or after
\* the cursor that skip_whitespace keeps.
RECURSIVE ScanStart(_, _, _)
ScanStart(text, i, emit_newline) ==
    IF /\ i <= Len(text)
       /\ \/ text[i] \in Whitespace \ {NL}
          \/ text[i] = NL /\ ~emit_newline
    THEN ScanStart(text, i + 1, emit_newline)
    ELSE i
TokenStart == ScanStart(lexer.source, lexer.ch_cursor + 1, lexer.emit_newline)
\* The character there starts no token.
StartsNoToken ==
    /\ TokenStart <= Len(lexer.source)
    /\ LET c == lexer.source[TokenStart]
       IN /\ c \notin (AsciiAlphanumeric \cup {"_", NL})
          /\ RefOneChar(c) = <<>>
          /\ \/ TokenStart = Len(lexer.source)
             \/ RefTwoChar(c, lexer.source[TokenStart + 1]) = <<>>
\* A run of digits starts there and runs into letters.
DigitsIntoLetters ==
    /\ TokenStart <= Len(lexer.source)
    /\ lexer.source[TokenStart] \in AsciiDigits
    /\ RunEnd(lexer.source, TokenStart, AsciiAlphanumeric)
         > RunEnd(lexer.source, TokenStart, AsciiDigits)
\* The consume returned IllegalToken with an Illegal token of this lexeme,
\* which is now the last and the current token, and the text is read up to
\* position `upto`.
IllegalRecorded(lexeme, upto) ==
    /\ IsErr(ret')
    /\ ret'[2] = <<"IllegalToken", peek(lexer')>>
    /\ peek(lexer').tokentype = <<"Illegal", lexeme>>
    /\ lexer'.token_cursor = Len(lexer'.tokens) - 1
    /\ lexer'.tokens = Append(lexer.tokens, peek(lexer'))
    /\ lexer'.ch_cursor = upto

\* C20: a consume that meets a character starting no token returns
\* IllegalToken, having recorded an Illegal token of that one character as
\* the current token and moved past it; one that meets digits running into
\* letters or digits records a single Illegal token of the whole
\* alphanumeric run and moves past the run.
C20_IllegalTokens ==
    [][ReadStep =>
          /\ StartsNoToken =>
                IllegalRecorded(<< lexer.source[TokenStart] >>, TokenStart)
          /\ DigitsIntoLetters =>
                IllegalRecorded(
                    SubSeq(lexer.source, TokenStart,
                           RunEnd(lexer.source, TokenStart, AsciiAlphanumeric)),
                    RunEnd(lexer.source, TokenStart, AsciiAlphanumeric))]_vars

\* `@1x` read to its end: Illegal(@), then Illegal(1x), then EndOfFile.
C20_Witness ==
    /\ lexer.source = <<"@", "1", "x">>
    /\ TypesSeen(lexer) = << <<"StartOfFile">>, <<"Illegal", <<"@">> >>,
                             <<"Illegal", <<"1", "x">> >>, <<"EndOfFile">> >>

----------------------------------------------------------------------------
(* Properties of newline emission (SpecParens)                          *)

\* No function of the parser has returned an error other than NotFound.
NotFailed == ~(IsErr(ret) /\ ~IsNotFound(ret))
\* This step made the lexer scan a token.
Scanned == Len(lexer'.tokens) = Len(lexer.tokens) + 1
LastToken(lx) == lx.tokens[Len(lx.tokens)]
\* The unread text starts with a newline character.
NewlineIsNext ==
    IF lexer.given[1] = "Some"
    THEN /\ lexer.ch_cursor < Len(lexer.given[2])
         /\ lexer.given[2][lexer.ch_cursor + 1] = NL
    ELSE /\ Len(lexer'.source) > Len(lexer.source)
         /\ lexer'.source[Len(lexer.source) + 1] = NL

\* C21: while the parse has not failed, emit_newline is true exactly when
\* rexp_nesting_level is 0; no token scanned while a parenthesis is open is
\* a NewLine, also after an inner parenthesis has closed; and the step
\* that closes the outermost parenthesis scans a NewLine token when a
\* newline character comes next.
C21_EmitNewlineIffNotNested ==
    /\ [](NotFailed => (lexer.emit_newline <=> rexp_nesting_level = 0))
    /\ [][/\ (Scanned /\ rexp_nesting_level' > 0) =>
                LastToken(lexer').tokentype # <<"NewLine">>
          /\ (Scanned /\ rexp_nesting_level = 1 /\ rexp_nesting_level' = 0
                /\ NewlineIsNext) =>
                LastToken(lexer').tokentype = <<"NewLine">>]_vars

\* `((x)`, a newline, `)`, a newline: the newline after the inner `)` gave
\* no token, the one after the outer `)` gave NewLine.
C21_Witness ==
    /\ lexer.source = <<"(", "(", "x", ")", NL, ")", NL>>
    /\ [i \in DOMAIN lexer.tokens |-> lexer.tokens[i].tokentype[1]] =
          <<"StartOfFile", "SBrace", "SBrace", "Ident", "EBrace", "EBrace", "NewLine">>
    /\ rexp_nesting_level = 0 /\ lexer.emit_newline

----------------------------------------------------------------------------
(* Properties of `if` and `else` (SpecIf)                               *)

\* Parser::if_ returns Ok on this step.
IfReturnsOk == stack # <<>> /\ Top.fn = "if_" /\ stack' = Tail(stack) /\ IsOk(ret')
\* The else part of a Stmt::If is absent, a Stmt::If or a Stmt::Block.
ElseIsIfOrBlock(stmt) ==
    /\ stmt[1] = "If"
    /\ stmt[4] = <<>> \/ stmt[4][1][1] \in {"If", "Block"}
\* Token i is an `else` that if_ consumed (a token follows it) and the
\* token after it is neither `if` nor `{`.
ElseThenOther(i) ==
    /\ i + 1 \in DOMAIN lexer.tokens
    /\ lexer.tokens[i].tokentype = <<"Else">>
    /\ lexer.tokens[i + 1].tokentype[1] \notin {"If", "SCurly"}
IfsReturnedWellFormed == [][IfReturnsOk => ElseIsIfOrBlock(ret'[2])]_vars

\* C22 as stated: every Stmt::If that if_ returns has no else part or one
\* that is a Stmt::If or a Stmt::Block, and a parse in which an `else` was
\* followed by neither `if` nor `{` has failed with ExpectedBlock at the
\* token after the `else`.
C22_ElseIsIfOrBlock ==
    /\ IfsReturnedWellFormed
    /\ [](\A i \in DOMAIN lexer.tokens :
             (Finished /\ ElseThenOther(i)) =>
                ret = Err(<<"ExpectedBlock", lexer.tokens[i + 1].start>>))

\* C22 amended: the same, except that when the characters after the `else`
\* form no token the parse has failed with IllegalToken for them.
C22_ElseIsIfOrBlockUnlessIllegal ==
    /\ IfsReturnedWellFormed
    /\ [](\A i \in DOMAIN lexer.tokens :
             (Finished /\ ElseThenOther(i)) =>
                ret = IF lexer.tokens[i + 1].tokentype[1] = "Illegal"
                      THEN Err(<<"IllegalToken", lexer.tokens[i + 1]>>)
                      ELSE Err(<<"ExpectedBlock", lexer.tokens[i + 1].start>>))

\* `if x { } else x`: failed with ExpectedBlock at the second `x`.
C22_Witness ==
    /\ Finished
    /\ lexer.source = <<"if", "x", "{", "}", "else", "x">>
    /\ ret = Err(<<"ExpectedBlock", 5>>)

----------------------------------------------------------------------------
(* Properties of the parser's errors (Spec)                             *)

\* The kind of the i-th token scanned, and whether a token was scanned
\* after it (the parser then consumed it).
Ty(i) == lexer.tokens[i].tokentype[1]
Followed(i) == i + 1 \in DOMAIN lexer.tokens
StartAt(i) == lexer.tokens[i].start
\* The kinds of token a term, a statement start with; the binary operators.
TermStart == {"Ident", "IntLiteral", "Minus", "SBrace"}
StmtStart == TermStart \cup {"Let", "Exit", "SCurly", "If"}
OperatorKinds == {"Equal", "NotEqual", "Less", "LessEqual", "Greater",
                  "GreaterEqual", "Plus", "Minus", "Asterisk", "ForwardSlash"}
SingleTerm == {"Ident", "IntLiteral"}
\* parse_program has returned this error variant, this located error.
FailedWith(variant) == Finished /\ IsErr(ret) /\ ret[2][1] = variant
FailedAt(variant, i) == Finished /\ ret = Err(<<variant, StartAt(i)>>)
\* Token i stands where a top-level statement starts.
Count(kind, i) == Cardinality({ j \in 1..i : Ty(j) = kind })
TopLevelAt(i) ==
    /\ Ty(i) \in {"StartOfFile", "NewLine"}
    /\ Count("SCurly", i) = Count("ECurly", i)
\* The `=` at token i follows a bare identifier that starts a statement, or
\* `let` and an identifier.
BareLHS(i) ==
    /\ i > 2 /\ Ty(i - 1) = "Ident"
    /\ Ty(i - 2) \in {"StartOfFile", "NewLine", "SCurly", "Let"}

\* The missing terminals of the claim, each with the error it names: the
\* token at `at` is where the terminal is missing.
MissingIdent(i) ==
    Ty(i) = "Let" /\ Followed(i) /\ Ty(i + 1) # "Ident"
MissingExpression(i) ==
    /\ Ty(i) \in {"If", "Exit", "Assign", "SBrace"} \cup OperatorKinds
    /\ Followed(i) /\ Ty(i + 1) \notin TermStart
\* (the condition is a single term)
MissingBlock(i) ==
    /\ Ty(i) = "If" /\ Followed(i) /\ Ty(i + 1) \in SingleTerm
    /\ Followed(i + 1) /\ Ty(i + 2) \notin OperatorKinds \cup {"SCurly"}
\* (the block has no statement, or one that is a single term)
MissingECurlyFirst(i) ==
    /\ Ty(i) = "SCurly" /\ Followed(i)
    /\ Ty(i + 1) \notin StmtStart \cup {"NewLine", "ECurly"}
MissingECurlyAfter(i) ==
    /\ Ty(i) = "SCurly" /\ Followed(i) /\ Ty(i + 1) \in SingleTerm
    /\ Followed(i + 1)
    /\ Ty(i + 2) \notin OperatorKinds \cup {"Assign", "NewLine", "ECurly"}
\* (the statement is a single term)
MissingNewline(i) ==
    /\ TopLevelAt(i) /\ Followed(i) /\ Ty(i + 1) \in SingleTerm
    /\ Followed(i + 1)
    /\ Ty(i + 2) \notin OperatorKinds \cup {"Assign", "NewLine", "EndOfFile"}

\* C23 as stated: once parse_program has returned, a `let` followed by no
\* identifier has given ExpectedIdent; an `if`, `exit`, `=`, operator or
\* `(` followed by no term ExpectedExpression; a condition followed by no
\* `{` ExpectedBlock; a block's statements followed by no `}`
\* ExpectedECurly; a top-level statement followed by neither newline nor
\* end of file ExpectedNewline, each at the token found instead.
C23_MissingTerminals ==
    Finished =>
      \A i \in DOMAIN lexer.tokens :
        /\ MissingIdent(i) => FailedAt("ExpectedIdent", i + 1)
        /\ MissingExpression(i) => FailedWith("ExpectedExpression")
        /\ MissingBlock(i) => FailedAt("ExpectedBlock", i + 2)
        /\ MissingECurlyFirst(i) => FailedAt("ExpectedECurly", i + 1)
        /\ MissingECurlyAfter(i) => FailedAt("ExpectedECurly", i + 2)
        /\ MissingNewline(i) => FailedAt("ExpectedNewline", i + 2)

\* The error that comes before the one for the missing terminal: the token
\* found instead is Illegal, or the `=` at i has no bare identifier on its
\* left.
IllegalAt(k) == Ty(k) = "Illegal"
FailedIllegalAt(k) == Finished /\ ret = Err(<<"IllegalToken", lexer.tokens[k]>>)
RExpOnLHSAt(i) == Ty(i) = "Assign" /\ ~BareLHS(i)

\* C23 amended: the same, except that the parse has failed with
\* IllegalToken when the characters found instead form no token, and with
\* RExpOnLHS when an `=` followed by no term stands after an expression
\* that is not a bare identifier.
C23_MissingTerminalsUnlessEarlierError ==
    Finished =>
      \A i \in DOMAIN lexer.tokens :
        /\ MissingIdent(i) =>
              IF IllegalAt(i + 1) THEN FailedIllegalAt(i + 1)
              ELSE FailedAt("ExpectedIdent", i + 1)
        /\ MissingExpression(i) =>
              IF IllegalAt(i + 1) THEN FailedIllegalAt(i + 1)
              ELSE IF RExpOnLHSAt(i) THEN FailedWith("RExpOnLHS")
              ELSE FailedWith("ExpectedExpression")
        /\ MissingBlock(i) =>
              IF IllegalAt(i + 2) THEN FailedIllegalAt(i + 2)
              ELSE FailedAt("ExpectedBlock", i + 2)
        /\ MissingECurlyFirst(i) =>
              IF IllegalAt(i + 1) THEN FailedIllegalAt(i + 1)
              ELSE FailedAt("ExpectedECurly", i + 1)
        /\ MissingECurlyAfter(i) =>
              IF IllegalAt(i + 2) THEN FailedIllegalAt(i + 2)
              ELSE FailedAt("ExpectedECurly", i + 2)
        /\ MissingNewline(i) =>
              IF IllegalAt(i + 2) THEN FailedIllegalAt(i + 2)
              ELSE FailedAt("ExpectedNewline", i + 2)

\* `if x { x 1`: the block's statement is followed by `1`, and the parse
\* has failed with ExpectedECurly there.
C23_Witness ==
    /\ Finished
    /\ lexer.source = <<"if", "x", "{", "x", "1">>
    /\ ret = Err(<<"ExpectedECurly", 4>>)

----------------------------------------------------------------------------
(* Properties of bindings and scopes (SpecGen)                          *)

\* This step hands a Declare or an Initialize to gen_stmt.
BindsName == GeneratesStmt /\ cur_stmt'[1] \in {"Declare", "Initialize"}
\* The identifiers of the initializer all have a binding (a Declare has none).
InitializerResolves ==
    cur_stmt'[1] = "Initialize" =>
       \A l \in RExpIdents(cur_stmt'[3]) : Bound(Chain(gstack), l)
\* The scope `after` is the scope `before` with one more generation of the
\* name: the next generation number, stored under the name decorated with
\* it, every older generation kept.
NextGeneration(before, after, lexeme) ==
    LET n == Env_get_shadow_count(before, lexeme) + 1
    IN /\ lexeme \in DOMAIN after.shadow_counts
       /\ after.shadow_counts[lexeme] = n
       /\ Decorated(lexeme, n) \notin DOMAIN before.symtable
       /\ DOMAIN after.symtable = DOMAIN before.symtable \cup {Decorated(lexeme, n)}
       /\ after.symtable[Decorated(lexeme, n)].decorated_lexeme = Decorated(lexeme, n)
       /\ \A k \in DOMAIN before.symtable : after.symtable[k] = before.symtable[k]
       /\ Cardinality(Generations(after, lexeme)) = n
BindingSucceeds ==
    (BindsName /\ InitializerResolves) =>
       /\ IsOk(gret')
       /\ NextGeneration(Chain(gstack)[1], Chain(gstack')[1], cur_stmt'[2][2])
\* A use of a name reads the generation numbered last in the innermost
\* scope that holds the name, and no generation of that scope before it.
UseResolvesNewest ==
    \A l \in GenIdentLexemes :
       JustRead(l) =>
          LET chain == Chain(gstack)
              env == chain[CHOOSE i \in 1..Len(chain) :
                              /\ Holds(chain[i], l)
                              /\ \A j \in 1..(i - 1) : ~Holds(chain[j], l)]
              n == env.shadow_counts[l]
          IN /\ n = Cardinality(Generations(env, l))
             /\ ReadOffset = env.symtable[Decorated(l, n)].rbp_offset
             /\ \A g \in 1..(n - 1) :
                   env.symtable[Decorated(l, g)].rbp_offset # ReadOffset

\* C24: a Declare, and an Initialize whose initializer resolves, succeeds
\* also when the scope already holds the name, takes the next generation
\* number of the name and stores the symbol under the name decorated with
\* it; a use of the name reads the newest generation of the innermost
\* scope holding it, never an older one.
C24_NewGenerationPerBinding ==
    []UseResolvesNewest /\ [][BindingSucceeds]_vars

\* `let x`, `let x`, `x` at the top level: the scope holds x_1 at 8 and x_2
\* at 16, and the use reads offset 16.
C24_Witness ==
    /\ JustRead("x")
    /\ Len(Chain(gstack)) = 1
    /\ Generations(Chain(gstack)[1], "x") = {Decorated("x", 1), Decorated("x", 2)}
    /\ Chain(gstack)[1].symtable[Decorated("x", 1)].rbp_offset = 8
    /\ ReadOffset = 16

\* The frame offsets a text reads variables from.
ReadsOf(text) ==
    { text[i][3] : i \in { j \in DOMAIN text :
                             /\ text[j][1] = "stmt" /\ Len(text[j]) = 3
                             /\ text[j][2] = "push qword [rbp-N]" } }
\* This step hands an Initialize to gen_stmt.
InitializesName == GeneratesStmt /\ cur_stmt'[1] = "Initialize"
\* Its initializer is resolved in the scopes as they are before the step:
\* with its own name in the initializer and not bound before, the statement
\* fails with UndeclaredIdent for that name; when it succeeds, the code
\* reads the bindings the names referred to before, and not the new one.
InitializerResolvedFirst ==
    LET chain == Chain(gstack)
        name == cur_stmt'[2][2]
        idents == RExpIdents(cur_stmt'[3])
    IN /\ (name \in idents /\ ~Bound(chain, name)) =>
             gret' = Err(<<"UndeclaredIdent", GenIdent(name)>>)
       /\ IsOk(gret') =>
             /\ ReadsOf(emitted') = { Referent(chain, l).rbp_offset : l \in idents }
             /\ Binding(Chain(gstack')[1], name).rbp_offset \notin ReadsOf(emitted')

\* C25: for `let x = e`, e is resolved before x is registered: an x inside
\* e reads the binding x had before, and with no binding of x before the
\* statement fails with UndeclaredIdent.
C25_InitializerBeforeBinding ==
    [][InitializesName => InitializerResolvedFirst]_vars

\* `let x = 1` then `let x = 1 + x`: the second statement reads offset 8
\* and binds x at 16.
C25_Witness ==
    /\ cur_stmt = <<"Initialize", GenIdent("x"), <<"Add", GenLit("1"), GenVar("x")>> >>
    /\ IsOk(gret)
    /\ allocs = <<8, 16>>
    /\ ReadsOf(emitted) = {8}

\* A step leaves every scope alone that is, before or after it, an
\* enclosing scope: entering a block, every step inside it and leaving it
\* keep the symbol map, the shadow counts and the frame offset of the
\* scopes around the block.
Shorter(a, b) == IF Len(a) < Len(b) THEN Len(a) ELSE Len(b)
EnclosingUnchanged ==
    LET chain == Chain(gstack)
        after == Chain(gstack')
    IN \A i \in 1..Shorter(chain, after) :
          (i < Len(chain) \/ i < Len(after)) =>
             FromBottom(after, i) = FromBottom(chain, i)
\* gen_block returns on this step, to a caller that has a scope.
BlockReturns ==
    /\ gstack # <<>> /\ GTop.fn = "gen_block" /\ gstack' = Tail(gstack)
    /\ Len(Chain(gstack)) > 1
\* What is bound after the block is what the scopes around it bind.
OnlyEnclosingBound ==
    \A l \in GenIdentLexemes :
       Bound(Chain(gstack'), l) <=> Bound(Tail(Chain(gstack)), l)

\* C26: compiling a nested block, as a statement or as an arm of an `if`,
\* never changes an enclosing scope: its symbol map, shadow counts and
\* frame offset are, when gen_block returns, what they were when it was
\* called, and a name bound only in the block is not bound after it.
C26_BlockLeavesEnclosingScope ==
    [][EnclosingUnchanged /\ (BlockReturns => OnlyEnclosingBound)]_vars

\* `{ let x }` then `x`: the use after the block has failed with
\* UndeclaredIdent, the block's binding having had offset 8.
C26_Witness ==
    /\ cur_stmt = <<"RExp", GenVar("x")>>
    /\ gret = Err(<<"UndeclaredIdent", GenIdent("x")>>)
    /\ allocs = <<8>>
    /\ nstmts = 3

----------------------------------------------------------------------------
(* Properties of the operators' code (SpecOperator)                     *)

\* What `l op r` is for two words: sums, differences and products modulo
\* the word, the quotient of the words as unsigned numbers (none when r is
\* 0), 1 or 0 for a relation, which orders the words as signed numbers.
Truth(b) == IF b THEN 1 ELSE 0
ValueOf(kind, l, r) ==
    CASE kind = "Add" -> (l + r) % Word
      [] kind = "Sub" -> (l + (Word - r)) % Word
      [] kind = "Mul" -> (l * r) % Word
      [] kind = "Div" -> IF r = 0 THEN Undef ELSE l \div r
      [] kind = "Equal" -> Truth(l = r)
      [] kind = "NotEqual" -> Truth(l # r)
      [] kind = "Less" -> Truth(Signed(l) < Signed(r))
      [] kind = "LessEqual" -> Truth(Signed(l) <= Signed(r))
      [] kind = "Greater" -> Truth(Signed(l) > Signed(r))
      [] kind = "GreaterEqual" -> Truth(Signed(l) >= Signed(r))
\* The two's-complement negation of a word.
Negation(v) == IF v = 0 THEN 0 ELSE Word - v
\* The operands the code was entered with, and the value on top of the
\* stack.
LeftOperand == cpu.mem[1]
RightOperand == cpu.mem[2]
Pushed == cpu.mem[cpu.depth]
IsRelation(kind) ==
    kind \in {"Equal", "NotEqual", "Less", "LessEqual", "Greater", "GreaterEqual"}

\* C27: when the code of `x op y` has run to its end it has pushed one
\* value, `x op y`, computed with x in rax and y in rbx: the sum, difference
\* or product modulo the word, the unsigned quotient, 0 or 1 for a
\* relation; the code of `-x` has pushed the two's-complement negation of
\* x; and the code stops before its end only by dividing by zero.
C27_OperatorValues ==
    /\ RanToEnd =>
         /\ cpu.depth = 3
         /\ IF run_input[1] = "Term"
            THEN Pushed = Negation(LeftOperand)
            ELSE /\ Pushed = ValueOf(run_input[1], LeftOperand, RightOperand)
                 /\ Pushed # Undef
                 /\ cpu.rbx = RightOperand
                 /\ cpu.rax = Pushed
                 /\ IsRelation(run_input[1]) => Pushed \in {0, 1}
    /\ (cpu.status \notin {"off", "running"}) =>
         /\ cpu.status = "fault"
         /\ run_input[1] = "Div" /\ RightOperand = 0

\* 1 - 2 has run to its end and pushed the word of all ones.
C27_Witness ==
    /\ RanToEnd
    /\ run_input = <<"Sub", GenVar("x"), GenVar("y")>>
    /\ LeftOperand = 1 /\ RightOperand = 2
    /\ Pushed = Word - 1

----------------------------------------------------------------------------
(* Properties of `exit` (SpecExit)                                      *)

\* The value of an expression when x holds the word `x`.
RECURSIVE ValueOfRExp(_, _)
ValueOfRExp(rexp, x) ==
    IF rexp[1] = "Term"
    THEN CASE rexp[2][1] = "LExp" -> x
           [] rexp[2][1] = "IntLit" -> IntValue(rexp[2][2])
           [] rexp[2][1] = "Neg" -> Negation(ValueOfRExp(<<"Term", rexp[2][2]>>, x))
           [] rexp[2][1] = "Bracketed" -> ValueOfRExp(rexp[2][2], x)
    ELSE ValueOf(rexp[1], ValueOfRExp(rexp[2], x), ValueOfRExp(rexp[3], x))
\* What the statements do to x, and the value of the first `exit` they
\* execute (Undef while none has been executed), statement by statement.
RECURSIVE Meaning(_, _)
Meaning(stmts, st) ==
    IF stmts = <<>> \/ st.exit # Undef THEN st
    ELSE LET stmt == Head(stmts)
             after ==
               CASE stmt[1] \in {"Initialize", "Assign"} ->
                      [st EXCEPT !.x = ValueOfRExp(stmt[3], st.x)]
                 [] stmt[1] = "Exit" ->
                      [st EXCEPT !.exit = ValueOfRExp(stmt[2], st.x)]
                 [] stmt[1] = "Block" -> Meaning(stmt[2], st)
                 [] stmt[1] = "If" ->
                      IF ValueOfRExp(stmt[2], st.x) # 0 THEN Meaning(stmt[3], st)
                      ELSE Meaning(stmt[4], st)
         IN Meaning(Tail(stmts), after)
ExitValue == Meaning(run_input, [x |-> Undef, exit |-> Undef]).exit
Exited == cpu.status = "exited"
EpilogueCall == Len(asm_text)

\* C28: the program ends in a call of ExitProcess: the call of the first
\* `exit e` that is executed, with the value of e in rcx, moved there from
\* the rax it was popped into; or, when no `exit` is executed, the call of
\* the epilogue, with 0 in rcx.
C28_ExitPassesValue ==
    /\ cpu.status \in {"off", "running", "exited"}
    /\ cpu.status = "running" => cpu.rip <= Len(asm_text)
    /\ Exited =>
         IF ExitValue = Undef
         THEN cpu.rip = EpilogueCall /\ cpu.rcx = 0
         ELSE /\ cpu.rip < EpilogueCall
              /\ asm_text[cpu.rip - 1] = Asm_stmt("mov rcx, rax")
              /\ asm_text[cpu.rip - 2] = Asm_stmt("pop rax")
              /\ cpu.rcx = ExitValue

\* `let x = 0` and `exit x - 1` has exited with the word of all ones.
C28_Witness ==
    /\ Exited
    /\ run_input = << <<"Initialize", GenIdent("x"), GenLit("0")>>,
                      <<"Exit", <<"Sub", GenVar("x"), GenLit("1")>> >> >>
    /\ cpu.rcx = Word - 1

----------------------------------------------------------------------------
(* Properties of the stack frame (SpecFrame)                            *)

\* Two lines of text are the same line.
SameLine(a, b) == ToString(a) = ToString(b)
OpensScope(line) ==
    \/ SameLine(line, Asm_comment("{"))
    \/ SameLine(line, Asm_comment("else {"))
    \/ SameLine(line, Asm_comment("else if {"))
ClosesScope(line) == SameLine(line, Asm_comment("}"))
Allocates(line) == line[1] = "stmt" /\ line[2] = "sub rsp, N"
AccessesFrame(line) ==
    line[1] = "stmt" /\ line[2] \in {"push qword [rbp-N]", "mov qword [rbp-N], rax"}
Pushes(line) == line[1] = "stmt" /\ line[2] \in {"push qword [rbp-N]", "push rax"}
Pops(line) == line[1] = "stmt" /\ line[2] \in {"pop rax", "pop rbx"}
\* The frame offsets in force after the first n lines of the text, innermost
\* scope first: a scope starts at the offset of the scope around it, and
\* every allocation advances the innermost offset by its size.
RECURSIVE Offsets(_, _)
Offsets(text, n) ==
    IF n = 0 THEN <<0>>
    ELSE LET before == Offsets(text, n - 1)
             line == text[n]
         IN IF OpensScope(line) THEN <<Head(before)>> \o before
            ELSE IF ClosesScope(line) THEN Tail(before)
            ELSE IF Allocates(line) THEN <<Head(before) + line[3]>> \o Tail(before)
            ELSE before
\* The largest frame offset of a binding visible at the line about to run.
VisibleOffset == Head(Offsets(asm_text, cpu.rip - 1))
FrameBytes == cpu.depth * SlotBytes
\* Before every line the frame reaches every visible binding; a line that
\* reads or writes a variable addresses a visible binding inside the frame;
\* a push writes below every visible binding.
FrameCoversBindings ==
    (cpu.status = "running" /\ cpu.rip <= Len(asm_text)) =>
        /\ FrameBytes >= VisibleOffset
        /\ AccessesFrame(asm_text[cpu.rip]) =>
              /\ asm_text[cpu.rip][3] <= VisibleOffset
              /\ asm_text[cpu.rip][3] <= FrameBytes
        /\ Pushes(asm_text[cpu.rip]) => FrameBytes + SlotBytes > VisibleOffset
\* A step of the processor raises rsp only by popping one quadword, and
\* the end of a block leaves rsp where the block's last statement left it.
RspRaisedOnlyByPop ==
    (cpu.status = "running" /\ cpu'.status = "running" /\ asm_text' = asm_text
     /\ cpu' # cpu) =>
        /\ cpu'.depth < cpu.depth =>
              Pops(asm_text[cpu.rip]) /\ cpu'.depth = cpu.depth - 1
        /\ ClosesScope(asm_text[cpu.rip]) => cpu'.depth = cpu.depth

\* C29: while the generated code runs, the frame (rbp - rsp) reaches the
\* offset of every binding visible at the line about to run, whichever arms
\* ran before; rsp is raised only by the pops of an expression, never at
\* the end of a block; so no push writes the slot of a visible binding and
\* every access of a variable lies inside the frame.
C29_FrameCoversBindings == []FrameCoversBindings /\ [][RspRaisedOnlyByPop]_vars

\* `let x = 1`, `if x { let y }`, `let y = x`: the arm has run, the frame is
\* three slots deep and the second `let` stores into the slot at offset 16.
C29_Witness ==
    /\ cpu.status = "running" /\ cpu.rip <= Len(asm_text)
    /\ run_input = << <<"Initialize", GenIdent("x"), GenLit("1")>>,
                      <<"If", GenVar("x"), << <<"Declare", GenIdent("y")>> >>, <<>> >>,
                      <<"Initialize", GenIdent("y"), GenVar("x")>> >>
    /\ asm_text[cpu.rip] = Asm_stmt1("mov qword [rbp-N], rax", 16)
    /\ cpu.depth = 3

----------------------------------------------------------------------------
(* Properties of termination (SpecTerminates)                           *)

Consumed == lexer'.token_cursor > lexer.token_cursor
\* A step that starts the next iteration of a loop: of skip_newlines, of
\* parse_program, of the two loops of block,
LoopsBack ==
    /\ stack # <<>> /\ stack' # <<>>
    /\ Len(stack') = Len(stack) /\ Head(stack').fn = Top.fn
    /\ \/ Top.fn = "skip_newlines"
       \/ Top.fn = "parse_program" /\ Top.pc = "after_stmt"
            /\ Head(stack').pc = "skip_newlines"
       \/ Top.fn = "block" /\ Top.pc \in {"newlines", "after_stmt"}
            /\ Head(stack').pc = "newlines"
\* or of rexp_min_prec, which goes on by parsing a right-hand side.
RexpGoesOn ==
    /\ stack # <<>> /\ Top.fn = "rexp_min_prec" /\ Top.pc \in {"term", "rhs"}
    /\ Len(stack') > Len(stack)
LoopConsumes == (LoopsBack \/ RexpGoesOn) => Consumed
\* Past the end of the text every token made is EndOfFile, and the parser
\* never steps back.
EndOfFileStays ==
    /\ lexer'.token_cursor >= lexer.token_cursor
    /\ (lexer.src_end /\ Len(lexer'.tokens) > Len(lexer.tokens)) =>
          /\ lexer'.src_end
          /\ peek(lexer').tokentype = <<"EndOfFile">>
\* EndOfFile starts no statement and no term.
EndOfFileStartsNothing ==
    (/\ Running("stmt", "start") \/ Running("term", "start")
     /\ peek(lexer).tokentype = <<"EndOfFile">>) =>
        /\ stack' = Tail(stack) /\ ret' = Err(NotFound)
        /\ lexer' = lexer

\* C30: parse_program returns on every text: each step that starts another
\* iteration of a loop of parse_program, block, skip_newlines or
\* rexp_min_prec has consumed a token, a consume past the end of the text
\* yields EndOfFile, and EndOfFile starts no statement and no term.
C30_ParseProgramTerminates ==
    /\ <>Finished
    /\ [][LoopConsumes /\ EndOfFileStays /\ EndOfFileStartsNothing]_vars

\* parse_program has returned Ok with two statements, having read the
\* text to its end.
C30_Witness ==
    /\ Finished /\ IsOk(ret)
    /\ Len(program) = 2
    /\ lexer.src_end
    /\ peek(lexer).tokentype = <<"EndOfFile">>

====
